---------------------------- MODULE Spec2Model ----------------------------
(***************************************************************************)
(* Model of the validation audit script (scripts/audit_validation.py).     *)
(*                                                                         *)
(* One run of the script is a state machine: the dataset file is looked    *)
(* up and loaded, the target column is resolved, the feature sets are      *)
(* built, and four stages run in sequence, each writing its report file    *)
(* when it completes.  An exception raised anywhere in main() propagates   *)
(* to the handler of the __main__ block, which prints an ERROR line and    *)
(* exits with status 1.                                                    *)
(*                                                                         *)
(* Column names are sequences of one-character strings so that lower()     *)
(* and the substring test `t in s` are computed, not assumed.  Scores are  *)
(* exact rationals [n, d]; NaN is the rational with d = 0.                 *)
(***************************************************************************)
EXTENDS Integers, Sequences, FiniteSets, TLC

(***************************************************************************)
(* Bounds of the model.                                                    *)
(***************************************************************************)
\* longest sequence of catalogue columns a dataset starts with
MaxCols == 3
\* number of generated plain feature columns appended to a wide dataset
PadCols == 31
\* the value patterns tried for the array mutual_info_classif returns
MiPatterns == 2

(***************************************************************************)
(* Strings.                                                                *)
(***************************************************************************)
UpperChars == <<"A","B","C","D","E","F","G","H","I","J","K","L","M",
                "N","O","P","Q","R","S","T","U","V","W","X","Y","Z">>

LowerChars == <<"a","b","c","d","e","f","g","h","i","j","k","l","m",
                "n","o","p","q","r","s","t","u","v","w","x","y","z">>

\* the characters in code-point order: digits, upper case, "_", lower case
CodePoints == <<"0","1","2","3","4","5","6","7","8","9">> \o UpperChars
              \o <<"_">> \o LowerChars

Ord(ch) == CHOOSE i \in 1..Len(CodePoints) : CodePoints[i] = ch

LowerChar(ch) ==
    IF \E i \in 1..26 : UpperChars[i] = ch
    THEN LowerChars[CHOOSE i \in 1..26 : UpperChars[i] = ch]
    ELSE ch

\* str.lower()
Lower(s) == [i \in 1..Len(s) |-> LowerChar(s[i])]

\* the substring test  t in s ; also the sub-list test on word sequences
Contains(t, s) ==
    \E i \in 0..(Len(s) - Len(t)) : SubSeq(s, i + 1, i + Len(t)) = t

\* s < t in Python's string order
RECURSIVE StrLess(_, _)
StrLess(s, t) ==
    IF t = <<>> THEN FALSE
    ELSE IF s = <<>> THEN TRUE
    ELSE IF Ord(Head(s)) # Ord(Head(t)) THEN Ord(Head(s)) < Ord(Head(t))
    ELSE StrLess(Tail(s), Tail(t))

\* x in seq
InSeq(x, seq) == \E i \in 1..Len(seq) : seq[i] = x

Range(seq) == {seq[i] : i \in 1..Len(seq)}

RECURSIVE SelectSeqBy(_, _)
\* [x for x in seq if x in keep]
SelectSeqBy(seq, keep) ==
    IF seq = <<>> THEN <<>>
    ELSE IF Head(seq) \in keep
         THEN <<Head(seq)>> \o SelectSeqBy(Tail(seq), keep)
         ELSE SelectSeqBy(Tail(seq), keep)

(***************************************************************************)
(* Module constants of the script.                                         *)
(***************************************************************************)
\* the preferred names tried in the other order
TARGET_PREFERRED_reversed ==
    << <<"d","i","a","g","n","o","s","i","s">>,
       <<"D","i","a","g","n","o","s","i","s">> >>

TARGET_PREFERRED ==
    << <<"D","i","a","g","n","o","s","i","s">>,
       <<"d","i","a","g","n","o","s","i","s">> >>

TARGET_CANDIDATE_HINTS ==
    << <<"d","i","a","g","n","o","s","i","s">>,
       <<"l","a","b","e","l">>,
       <<"t","a","r","g","e","t">>,
       <<"a","l","z">>,
       <<"o","u","t","c","o","m","e">> >>

COGNITIVE_TOKENS ==
    << <<"m","m","s","e">>,
       <<"f","u","n","c","t","i","o","n","a","l">>,
       <<"a","d","l">>,
       <<"m","e","m","o","r","y">>,
       <<"b","e","h","a","v","i","o","r">>,
       <<"b","e","h","a","v","i","o","u","r">>,
       <<"c","o","n","f","u","s","i","o","n">>,
       <<"d","i","s","o","r","i","e","n","t","a","t","i","o","n">>,
       <<"p","e","r","s","o","n","a","l","i","t","y">> >>

SITE_TOKENS ==
    << <<"s","i","t","e">>,
       <<"h","o","s","p","i","t","a","l">>,
       <<"c","e","n","t","e","r">>,
       <<"c","e","n","t","r","e">>,
       <<"c","l","i","n","i","c">>,
       <<"l","o","c","a","t","i","o","n">> >>

DATE_TOKENS == << <<"d","a","t","e">>, <<"y","e","a","r">> >>

ID_TOKENS ==
    << <<"p","a","t","i","e","n","t","i","d">>,
       <<"i","d">>,
       <<"i","d","e","n","t","i","f","i","e","r">>,
       <<"d","o","c","t","o","r","i","n","c","h","a","r","g","e">> >>

(***************************************************************************)
(* Datasets.  A dataset is a sequence of column ids; Col(id) is the column *)
(* (name, dtype, one value per row).  Ids 1..NCatalogue name the catalogue *)
(* columns, larger ids the generated plain feature columns f01, f02, ...   *)
(***************************************************************************)
\* a missing cell of a numeric column
NaN == -1

Rows == 1..4

Digits == <<"0","1","2","3","4","5","6","7","8","9">>

Catalogue ==
    << [name |-> <<"D","i","a","g","n","o","s","i","s">>, dtype |-> "num",
        vals |-> <<0, 1, 0, 1>>],
       [name |-> <<"d","i","a","g","n","o","s","i","s">>, dtype |-> "num",
        vals |-> <<0, 1, 0, 1>>],
       [name |-> <<"A","l","z","L","a","b","e","l">>, dtype |-> "num",
        vals |-> <<1, 0, 1, 0>>],
       [name |-> <<"O","u","t","c","o","m","e">>, dtype |-> "num",
        vals |-> <<1, 1, 1, 1>>],
       [name |-> <<"S","e","x">>, dtype |-> "num",
        vals |-> <<0, 0, 1, 1>>],
       [name |-> <<"N","o","t","e","s">>, dtype |-> "num",
        vals |-> <<NaN, NaN, NaN, NaN>>],
       [name |-> <<"S","i","t","e">>, dtype |-> "cat",
        vals |-> <<"A", "B", "C", "A">>],
       [name |-> <<"M","M","S","E">>, dtype |-> "num",
        vals |-> <<7, 7, 7, 7>>] >>

NCatalogue == Len(Catalogue)

\* generated column k: a numeric copy of the 0/1 pattern with 2 for 1
PadColumn(k) ==
    [name |-> <<"f", Digits[(k \div 10) + 1], Digits[(k % 10) + 1]>>,
     dtype |-> "num",
     vals |-> <<0, 2, 0, 2>>]

\* a numeric cell from Beyond upwards stands for an unsigned 64-bit value
\* above 2^63 - 1, the largest count of nanoseconds a timestamp holds
Beyond == 2000000000

\* columns with an identifier, site or temporal role; ids above 100
RoleCatalogue ==
    << [name |-> <<"P","a","t","i","e","n","t","I","D">>, dtype |-> "num",
        vals |-> <<1, 3, 2, 4>>],
       [name |-> <<"S","i","t","e","I","D">>, dtype |-> "cat",
        vals |-> <<"A", "B", "A", "B">>],
       [name |-> <<"M","e","m","o","r","y","I","D">>, dtype |-> "num",
        vals |-> <<4, 3, 2, 1>>],
       [name |-> <<"D","a","t","e">>, dtype |-> "cat",
        vals |-> <<"2021-03-01", "2020-01-05", "2022-07-09", "2020-01-05">>],
       [name |-> <<"Y","e","a","r">>, dtype |-> "num",
        vals |-> <<2001, 2003, 2002, 2001>>],
       [name |-> <<"U","p","d","a","t","e","d">>, dtype |-> "cat",
        vals |-> <<"yes", "no", "yes", "no">>],
       [name |-> <<"A","d","m","i","t","D","a","t","e">>, dtype |-> "num",
        vals |-> <<Beyond + 7, Beyond + 5, Beyond + 6, Beyond + 7>>],
       [name |-> <<"C","l","i","n","i","c">>, dtype |-> "cat",
        vals |-> <<"A", "nan", "nan", "B">>] >>

\* the 0/1 column whose rows spell the binary digits of code; ids above 200
BitColumn(code) ==
    [name |-> <<"b", Digits[(code \div 10) + 1], Digits[(code % 10) + 1]>>,
     dtype |-> "num",
     vals |-> [r \in Rows |-> (code \div (2 ^ (r - 1))) % 2]]

Col(id) ==
    IF id <= NCatalogue THEN Catalogue[id]
    ELSE IF id > 200 THEN BitColumn(id - 201)
    ELSE IF id > 100 THEN RoleCatalogue[id - 100]
    ELSE PadColumn(id - NCatalogue)

Name(id) == Col(id).name

\* df.columns
Columns(df) == [i \in 1..Len(df) |-> Name(df[i])]

\* the id of the column called nm  (df[nm])
ColId(df, nm) == df[CHOOSE i \in 1..Len(df) : Name(df[i]) = nm]

\* the id of the identifier column PatientID of the role columns
PatientID == 101

\* the sequences of distinct catalogue columns of length 1..MaxCols
RECURSIVE DistinctSeqs(_)
DistinctSeqs(n) ==
    IF n = 0 THEN {<<>>}
    ELSE LET shorter == DistinctSeqs(n - 1)
         IN  shorter \cup
             {Append(s, c) : s \in {t \in shorter : Len(t) = n - 1},
                             c \in 1..NCatalogue}

Datasets ==
    LET base == {s \in DistinctSeqs(MaxCols) :
                    /\ s # <<>>
                    /\ \A i, j \in 1..Len(s) : i # j => s[i] # s[j]}
        pads == [k \in 1..PadCols |-> NCatalogue + k]
    IN  base \cup {s \o pads : s \in {t \in base : Len(t) = 1}}
             \cup {Append(s, PatientID) : s \in {t \in base : Len(t) <= 2}}


(***************************************************************************)
(* Rational scores.  A score is [n, d] with d > 0; NaN has d = 0.          *)
(***************************************************************************)
\* np.nan as a score
NanScore == [n |-> 0, d |-> 0]

\* None in a JSON report
NoneScore == [n |-> 0 - 1, d |-> 0]

\* math.isnan
IsNan(a) == a.d = 0

Zero == [n |-> 0, d |-> 1]

Neg(a) == [n |-> 0 - a.n, d |-> a.d]

Lt(a, b) == a.n * b.d < b.n * a.d

Eq(a, b) == a.n * b.d = b.n * a.d

(***************************************************************************)
(* detect_target                                                           *)
(***************************************************************************)
\* df[c].dropna().unique() of a numeric column
DropnaUnique(c) == {c.vals[r] : r \in Rows} \ {NaN}

\* line 94: at most three distinct non-missing values, all of them 0 or 1
IsBinaryColumn(c) ==
    /\ c.dtype = "num"
    /\ Cardinality(DropnaUnique(c)) <= 3
    /\ DropnaUnique(c) \subseteq {0, 1}

\* binary_candidates, in column order
BinaryCandidates(df) ==
    LET keep == {id \in Range(df) : IsBinaryColumn(Col(id))}
    IN  [i \in 1..Len(SelectSeqBy(df, keep)) |-> Name(SelectSeqBy(df, keep)[i])]

\* lower_cols = {c.lower(): c for c in df.columns}: the last column wins
LowerCols(df) ==
    [k \in {Lower(Name(id)) : id \in Range(df)} |->
        Name(df[CHOOSE i \in 1..Len(df) :
                    /\ Lower(Name(df[i])) = k
                    /\ \A j \in (i + 1)..Len(df) : Lower(Name(df[j])) # k])]

\* the first element of seq that satisfies the test encoded by the set hits
FirstHit(hits) == CHOOSE i \in hits : \A j \in hits : i <= j

TargetMessage ==
    <<"Unable", "to", "uniquely", "determine", "target", "column.",
      "Candidates:">>

NoName == <<>>

\* the fallback settles for the first candidate whenever there is one
ResolveBinary_first(binary) ==
    IF Len(binary) >= 1
    THEN [raised |-> FALSE, value |-> binary[1],
          stage |-> "binary", words |-> <<>>, candidates |-> <<>>]
    ELSE [raised |-> TRUE, value |-> NoName,
          stage |-> "binary", words |-> TargetMessage,
          candidates |-> binary]

\* lines 96-103
ResolveBinary(binary) ==
    IF Len(binary) = 1
    THEN [raised |-> FALSE, value |-> binary[1],
          stage |-> "binary", words |-> <<>>, candidates |-> <<>>]
    ELSE [raised |-> TRUE, value |-> NoName,
          stage |-> "binary", words |-> TargetMessage,
          candidates |-> binary]

detect_target(df) ==
    LET cols     == Columns(df)
        prefHits == {i \in 1..Len(TARGET_PREFERRED) :
                        InSeq(TARGET_PREFERRED[i], cols)}
        lower    == LowerCols(df)
        hintHits == {i \in 1..Len(TARGET_CANDIDATE_HINTS) :
                        TARGET_CANDIDATE_HINTS[i] \in DOMAIN lower}
        binary   == BinaryCandidates(df)
    IN  IF prefHits # {}
        THEN [raised |-> FALSE, value |-> TARGET_PREFERRED[FirstHit(prefHits)],
              stage |-> "preferred", words |-> <<>>, candidates |-> <<>>]
        ELSE IF hintHits # {}
        THEN [raised |-> FALSE,
              value |-> lower[TARGET_CANDIDATE_HINTS[FirstHit(hintHits)]],
              stage |-> "hint", words |-> <<>>, candidates |-> <<>>]
        ELSE ResolveBinary(binary)

(***************************************************************************)
(* Column roles and feature sets                                           *)
(***************************************************************************)
RECURSIVE SortedNames(_)
\* sorted(names)
SortedNames(S) ==
    IF S = {} THEN <<>>
    ELSE LET m == CHOOSE x \in S : \A z \in S \ {x} : StrLess(x, z)
         IN  <<m>> \o SortedNames(S \ {m})

\* the columns whose whole lower-cased name is a token
find_columns_by_tokens_exact(df, tokens) ==
    SortedNames({Name(id) : id \in
        {c \in Range(df) :
            \E t \in 1..Len(tokens) : tokens[t] = Lower(Name(c))}})

\* lines 106-114
find_columns_by_tokens(df, tokens) ==
    SortedNames({Name(id) : id \in
        {c \in Range(df) :
            \E t \in 1..Len(tokens) : Contains(tokens[t], Lower(Name(c)))}})

get_id_like_columns(df) == find_columns_by_tokens(df, ID_TOKENS)

get_cognitive_columns(df) == find_columns_by_tokens(df, COGNITIVE_TOKENS)

\* df[target].astype(int) raises on a missing value and on text
AstypeIntRaises(c) == c.dtype # "num" \/ NaN \in Range(c.vals)

ConversionMessage == <<"Cannot", "convert", "non-finite", "values", "to", "integer">>

\* X is kept as the sequence of the ids of its columns
split_features(df, target, drop_cognitive) ==
    LET id_cols   == Range(get_id_like_columns(df)) \ {target}
        cognitive == IF drop_cognitive THEN Range(get_cognitive_columns(df))
                     ELSE {}
        dropped   == {target} \cup id_cols \cup cognitive
        X         == SelectSeqBy(df, {id \in Range(df) : Name(id) \notin dropped})
    IN  IF AstypeIntRaises(Col(ColId(df, target)))
        THEN [raised |-> TRUE, words |-> ConversionMessage,
              X |-> <<>>, y |-> <<>>, used_cols |-> <<>>]
        ELSE [raised |-> FALSE, words |-> <<>>,
              X |-> X, y |-> Col(ColId(df, target)).vals,
              used_cols |-> Columns(X)]

\* df.drop(columns=[target], errors="ignore")
DropTarget(df, target) ==
    SelectSeqBy(df, {id \in Range(df) : Name(id) # target})

(***************************************************************************)
(* Leakage audit                                                           *)
(***************************************************************************)
\* the distinct non-missing values of a categorical column
Categories(c) == {c.vals[r] : r \in Rows} \ {"nan"}

\* pd.get_dummies(x, dummy_na=True).mean(axis=1), scaled by the number of
\* indicator columns: per row, the number of indicators that are set
DummyRowSums(c) ==
    [r \in Rows |->
        Cardinality({v \in Categories(c) \cup {"nan"} : c.vals[r] = v})]

\* roc_auc_score(y, x): raises unless y has exactly two classes and x has
\* no missing value; otherwise the share of (positive, negative) pairs the
\* score orders correctly, a tie counting one half
roc_auc_score(y, x) ==
    LET classes == Range(y)
        pos     == CHOOSE c \in classes : \A e \in classes : e <= c
        P       == {r \in Rows : y[r] = pos}
        N       == Rows \ P
        wins    == Cardinality({pq \in P \X N : x[pq[1]] > x[pq[2]]})
        ties    == Cardinality({pq \in P \X N : x[pq[1]] = x[pq[2]]})
    IN  IF Cardinality(classes) # 2 \/ NaN \in Range(x)
        THEN [raised |-> TRUE, score |-> NanScore]
        ELSE [raised |-> FALSE,
              score |-> [n |-> 2 * wins + ties,
                         d |-> 2 * Cardinality(P) * Cardinality(N)]]

\* the raw score, not folded about one half
Fold_raw(a) == a

\* max(score, 1 - score)
Fold(a) == IF 2 * a.n >= a.d THEN a ELSE [n |-> a.d - a.n, d |-> a.d]

\* lines 176-185: the score of one column, before the try/except
ColumnAuc(c, y) ==
    IF c.dtype = "num" THEN roc_auc_score(y, c.vals)
    ELSE roc_auc_score(y, DummyRowSums(c))

RocAucMessage ==
    <<"Only", "one", "class", "present", "in", "y_true.", "ROC", "AUC",
      "score", "is", "not", "defined", "in", "that", "case.">>

\* the loop body without its try/except: the first exception propagates
single_feature_auc_noexcept(X, y) ==
    IF \E c \in Range(X) : ColumnAuc(Col(c), y).raised
    THEN [raised |-> TRUE, words |-> RocAucMessage, aucs |-> <<>>]
    ELSE [raised |-> FALSE, words |-> <<>>,
          aucs |-> [nm \in {Name(id) : id \in Range(X)}
                      |-> Fold(ColumnAuc(Col(ColId(X, nm)), y).score)]]

\* lines 172-189.  Every exception of the loop body is caught, so the call
\* never raises; aucs has a key for the columns that were scored only
single_feature_auc(X, y) ==
    [raised |-> FALSE, words |-> <<>>,
     aucs |->
        [nm \in {Name(id) : id \in
                    {c \in Range(X) : ~ColumnAuc(Col(c), y).raised}}
            |-> Fold(ColumnAuc(Col(ColId(X, nm)), y).score)]]

\* the indicator columns of a categorical column: one per category in
\* sorted order, then the missing-value indicator
Dummies(c) ==
    LET cats == SortedNames({<<v>> : v \in Categories(c)})
    IN  [i \in 1..(Len(cats) + 1) |->
            IF i <= Len(cats) THEN c.name \o <<"_">> \o cats[i]
            ELSE c.name \o <<"_", "n", "a", "n">>]

RECURSIVE DummyColumns(_)
DummyColumns(X) ==
    IF X = <<>> THEN <<>>
    ELSE (IF Col(Head(X)).dtype = "num" THEN <<>> ELSE Dummies(Col(Head(X))))
         \o DummyColumns(Tail(X))

\* X_enc.columns: the numeric columns in order, then the indicator columns
EncodedColumns(X) ==
    Columns(SelectSeqBy(X, {id \in Range(X) : Col(id).dtype = "num"}))
    \o DummyColumns(X)

\* {col: float(mi[i]) for i, col in enumerate(X_enc.columns)}, mi being the
\* array mutual_info_classif returned; it raises on a matrix without columns
mutual_info_scores(X, mi) ==
    LET enc == EncodedColumns(X)
    IN  IF enc = <<>>
        THEN [raised |-> TRUE, scores |-> <<>>]
        ELSE [raised |-> FALSE,
              scores |-> [nm \in Range(enc) |->
                  mi[CHOOSE i \in 1..Len(enc) :
                        /\ enc[i] = nm
                        /\ \A j \in (i + 1)..Len(enc) : enc[j] # nm]]]

NoFeatureMessage == <<"Found", "array", "with", "0", "feature(s)">>

\* d.get(k, np.nan)
Get(d, k) == IF k \in DOMAIN d THEN d[k] ELSE NanScore

\* line 337: not math.isnan(v) and -v ; False compares as 0
SortKey(v) == IF IsNan(v) THEN Zero ELSE Neg(v)

\* tuple comparison of the keys of two (feature, auc, mi) triples
KeyLess(s, t) ==
    \/ Lt(SortKey(s.auc), SortKey(t.auc))
    \/ /\ Eq(SortKey(s.auc), SortKey(t.auc))
       /\ Lt(SortKey(s.mi), SortKey(t.mi))

\* insert e after every element that is not greater: the sort is stable
InsertSorted(sorted, e) ==
    LET p == Cardinality({i \in 1..Len(sorted) : ~KeyLess(e, sorted[i])})
    IN  SubSeq(sorted, 1, p) \o <<e>> \o SubSeq(sorted, p + 1, Len(sorted))

RECURSIVE SortedByKey(_, _)
\* sorted(seq, key=...), acc the sorted prefix
SortedByKey(acc, seq) ==
    IF seq = <<>> THEN acc
    ELSE SortedByKey(InsertSorted(acc, Head(seq)), Tail(seq))

\* lines 332-338
Suspicious(df, target, aucs, mi) ==
    LET others == DropTarget(df, target)
    IN  SortedByKey(<<>>,
            [i \in 1..Len(others) |->
                [feature |-> Name(others[i]),
                 auc     |-> Get(aucs, Name(others[i])),
                 mi      |-> Get(mi, Name(others[i]))]])

TOP_N == 30

\* float(v) if not math.isnan(v) else None
JsonScore(v) == IF IsNan(v) THEN NoneScore ELSE v

\* lines 339-342
TopSuspicious(suspicious) ==
    LET top == SubSeq(suspicious, 1,
                      IF Len(suspicious) < TOP_N THEN Len(suspicious) ELSE TOP_N)
    IN  [i \in 1..Len(top) |->
            [feature            |-> top[i].feature,
             single_feature_auc |-> JsonScore(top[i].auc),
             mutual_info        |-> JsonScore(top[i].mi)]]

PROXY_PERCENT == 98

\* a >= 0.98
IsProxy(a) == a.d > 0 /\ 100 * a.n >= PROXY_PERCENT * a.d

\* the flags taken from the first TOP_N scored columns only
ProxyFlags_top(X, aucs) ==
    LET scored == SelectSeqBy(X, {id \in Range(X) : Name(id) \in DOMAIN aucs})
        first  == SubSeq(scored, 1,
                         IF Len(scored) < TOP_N THEN Len(scored) ELSE TOP_N)
    IN  Columns(SelectSeqBy(first, {id \in Range(first) :
            IsProxy(aucs[Name(id)])}))

\* lines 347-349: the keys of aucs, in insertion (column) order
ProxyFlags(X, aucs) ==
    Columns(SelectSeqBy(X, {id \in Range(X) :
        Name(id) \in DOMAIN aucs /\ IsProxy(aucs[Name(id)])}))

(***************************************************************************)
(* The run of the script                                                   *)
(***************************************************************************)
VARIABLES
    files,           \* the two DATA_CANDIDATES: a dataset, or <<>> if absent
    pc,              \* the point main() has reached
    df,              \* the loaded dataset
    target,          \* the resolved target column
    resolved_by,     \* the step of detect_target that returned
    X_all, X_nocog,  \* the two feature matrices (column ids)
    y,               \* the target vector
    suspicious,      \* the sorted (feature, auc, mi) triples of main()
    leakage_report,  \* content of leakage_audit_report.json
    written,         \* per report file: who wrote the version on disk
    stdout,          \* the lines printed
    exit_code,       \* exit status of the process, Running before it ends
    failed           \* the step of main() that raised, "none" otherwise

auditVars == <<files, pc, df, target, resolved_by, X_all, X_nocog, y,
               suspicious, leakage_report, written, stdout, exit_code, failed>>

\* one call of single_feature_auc on a binary column and its complement
VARIABLES
    auc_pc,          \* "input" before the call, "scored" after it
    auc_X,           \* the frame passed: the column and its complement
    auc_y,           \* the target passed
    aucs             \* the dict returned

aucVars == <<auc_pc, auc_X, auc_y, aucs>>

\* one inner hyperparameter search (GridSearchCV.fit) of an outer fold
VARIABLES
    gs_pc,           \* "searching" while candidates run, then "selected"
    gs_candidates,   \* list(ParameterGrid(param_grid))
    gs_scores,       \* the mean validation score each candidate will get
    gs_arrival,      \* the candidates in the order their evaluation completed
    gs_best          \* best_index_ and best_params_ once selected

gsVars == <<gs_pc, gs_candidates, gs_scores, gs_arrival, gs_best>>

\* one call of nested_cv_scores
VARIABLES
    cv_pc,           \* "folds" inside the loop, then "returned" or "raised"
    cv_candidates,   \* list(ParameterGrid(...)) of the param_grid passed
    cv_y,            \* the labels y passed, per row
    cv_tested,       \* per row: the number of test folds it was yielded in
    cv_fit,          \* the latest fold: its index sets, rows fitted on, scored
    outer_scores,    \* the list of the same name
    fold_details,    \* the list of the same name
    cv_summary       \* the dict returned

cvVars == <<cv_pc, cv_candidates, cv_y, cv_tested, cv_fit, outer_scores,
            fold_details, cv_summary>>

\* the size computation of the temporal split
VARIABLES
    split_pc,        \* "input" before, "sized" after
    split_n,         \* len(df_sorted)
    split_sizes      \* the sizes reported

splitVars == <<split_pc, split_n, split_sizes>>

\* split_features and temporal_site_validation on a frame with role columns
VARIABLES
    role_pc,         \* "input", then "split", then "assessed"; or "raised"
    role_df,         \* the frame
    role_target,     \* the target column name
    role_features,   \* used_all and used_nocog of main()
    role_temporal    \* what temporal_site_validation returned, and its trace

roleVars == <<role_pc, role_df, role_target, role_features, role_temporal>>

\* the prediction API (api/main.py)
VARIABLES
    api_pc,          \* "starting", "serving", "failed" or "stopped"
    api_files,       \* the artifact files that can be loaded
    model_artifacts, \* the global dict of the same name
    api_response,    \* the last response sent
    api_predicted    \* number of calls of model.predict_proba

apiVars == <<api_pc, api_files, model_artifacts, api_response, api_predicted>>

\* calculate_risk_level applied to two probabilities
VARIABLES
    risk_pc,         \* "input" before, "levelled" after
    risk_p,          \* the two probabilities
    risk_levels      \* the two levels returned

riskVars == <<risk_pc, risk_p, risk_levels>>

\* the estimator objects of main(): lines 354-387
VARIABLES
    fit_pc,          \* the point reached: "start", ..., "done"
    objects,         \* every estimator object created, by identity
    fit_pipes,       \* the pipelines in scope: the holdout pair, or a fold's
    fit_family,      \* the model family nested_cv_scores was called for
    fit_fold,        \* evaluations done (holdout), fold_idx (nested CV)
    fit_pending      \* the clones of the search not fitted yet

fitVars == <<fit_pc, objects, fit_pipes, fit_family, fit_fold, fit_pending>>

\* one run of the batch client (api/batch_predict.py)
VARIABLES
    batch_pc,        \* the point main() has reached
    batch_args,      \* the command line and the input file it names
    batch_loaded,    \* whether load_patients has read the file
    batch_idx,       \* idx of the next row of df.iterrows()
    results,         \* the list of the same name of predict_batch
    success_count,   \* the counter of the same name
    error_count,     \* the counter of the same name
    batch_posts,     \* the POST /predict requests sent
    batch_exit       \* exit status of the client, Running before it ends

batchVars == <<batch_pc, batch_args, batch_loaded, batch_idx, results,
               success_count, error_count, batch_posts, batch_exit>>

vars == <<auditVars, aucVars, gsVars, cvVars, splitVars, roleVars, apiVars,
          riskVars, fitVars, batchVars>>

NotAudit == <<aucVars, gsVars, cvVars, splitVars, roleVars, apiVars,
              riskVars, fitVars, batchVars>>

NotAuc == <<auditVars, gsVars, cvVars, splitVars, roleVars, apiVars,
            riskVars, fitVars, batchVars>>

NotGs == <<auditVars, aucVars, cvVars, splitVars, roleVars, apiVars,
           riskVars, fitVars, batchVars>>

NotCv == <<auditVars, aucVars, gsVars, splitVars, roleVars, apiVars,
           riskVars, fitVars, batchVars>>

NotSplit == <<auditVars, aucVars, gsVars, cvVars, roleVars, apiVars,
              riskVars, fitVars, batchVars>>

NotRole == <<auditVars, aucVars, gsVars, cvVars, splitVars, apiVars,
             riskVars, fitVars, batchVars>>

NotApi == <<auditVars, aucVars, gsVars, cvVars, splitVars, roleVars,
            riskVars, fitVars, batchVars>>

NotRisk == <<auditVars, aucVars, gsVars, cvVars, splitVars, roleVars,
             apiVars, fitVars, batchVars>>

NotFit == <<auditVars, aucVars, gsVars, cvVars, splitVars, roleVars,
            apiVars, riskVars, batchVars>>

NotBatch == <<auditVars, aucVars, gsVars, cvVars, splitVars, roleVars,
              apiVars, riskVars, fitVars>>

NoFile == <<>>

Reports == {"leakage_audit_report", "with_without_cognitive_metrics",
            "temporal_site_validation", "nested_cv_summary"}

\* markers of `written`
Absent == "absent"

EarlierRun == "earlier run"

ThisRun == "this run"

Running == 0 - 1

EmptyReport ==
    [target |-> NoName, cognitive_features_detected |-> <<>>,
     top_suspicious_by_auc_mi |-> <<>>, proxy_flags |-> <<>>]

\* the candidate-file layouts: only the raw file, only the processed file,
\* both, or neither
FileLayouts ==
    {<<D, NoFile>> : D \in Datasets}
    \cup {<<NoFile, D>> : D \in {E \in Datasets : Len(E) = 2}}
    \cup {<<D, <<D[2], D[1]>> >> : D \in {E \in Datasets : Len(E) = 2}}
    \cup {<<NoFile, NoFile>>}

\* the variables of the audit run while another operation is modelled
AuditIdle ==
    /\ files = <<>>
    /\ pc = "idle"
    /\ df = <<>>
    /\ target = NoName
    /\ resolved_by = "none"
    /\ X_all = <<>>
    /\ X_nocog = <<>>
    /\ y = <<>>
    /\ suspicious = <<>>
    /\ leakage_report = EmptyReport
    /\ written = [r \in Reports |-> Absent]
    /\ stdout = <<>>
    /\ exit_code = Running
    /\ failed = "none"

AucIdle ==
    /\ auc_pc = "idle"
    /\ auc_X = <<>>
    /\ auc_y = <<>>
    /\ aucs = <<>>

GsIdle ==
    /\ gs_pc = "idle"
    /\ gs_candidates = <<>>
    /\ gs_scores = <<>>
    /\ gs_arrival = <<>>
    /\ gs_best = <<>>

CvIdle ==
    /\ cv_pc = "idle"
    /\ cv_candidates = <<>>
    /\ cv_y = <<>>
    /\ cv_tested = <<>>
    /\ cv_fit = <<>>
    /\ outer_scores = <<>>
    /\ fold_details = <<>>
    /\ cv_summary = <<>>

SplitIdle ==
    /\ split_pc = "idle"
    /\ split_n = 0
    /\ split_sizes = <<>>

RoleIdle ==
    /\ role_pc = "idle"
    /\ role_df = <<>>
    /\ role_target = NoName
    /\ role_features = <<>>
    /\ role_temporal = <<>>

ApiIdle ==
    /\ api_pc = "idle"
    /\ api_files = {}
    /\ model_artifacts = {}
    /\ api_response = <<>>
    /\ api_predicted = 0

RiskIdle ==
    /\ risk_pc = "idle"
    /\ risk_p = <<>>
    /\ risk_levels = <<>>

BatchIdle ==
    /\ batch_pc = "idle"
    /\ batch_args = <<>>
    /\ batch_loaded = FALSE
    /\ batch_idx = 0
    /\ results = <<>>
    /\ success_count = 0
    /\ error_count = 0
    /\ batch_posts = 0
    /\ batch_exit = Running

FitIdle ==
    /\ fit_pc = "idle"
    /\ objects = <<>>
    /\ fit_pipes = <<>>
    /\ fit_family = "none"
    /\ fit_fold = 0
    /\ fit_pending = {}

Init ==
    /\ AucIdle /\ GsIdle /\ CvIdle /\ SplitIdle /\ RoleIdle /\ ApiIdle
    /\ RiskIdle
    /\ FitIdle
    /\ BatchIdle
    /\ files \in FileLayouts
    /\ pc = "start"
    /\ df = <<>>
    /\ target = NoName
    /\ resolved_by = "none"
    /\ X_all = <<>>
    /\ X_nocog = <<>>
    /\ y = <<>>
    /\ suspicious = <<>>
    /\ leakage_report = EmptyReport
    /\ written \in {[r \in Reports |-> Absent], [r \in Reports |-> EarlierRun]}
    /\ stdout = <<>>
    /\ exit_code = Running
    /\ failed = "none"

\* the message printed without its prefix
ErrorLine_bare(e) == [words |-> e.words, names |-> e.candidates]

\* print(f"ERROR: {e}")
ErrorLine(e) == [words |-> <<"ERROR:">> \o e.words, names |-> e.candidates]

\* sys.exit(1)
EXIT_FAILURE == 1

\* lines 400-402: the handler of the __main__ block, after `step` raised e
Abort(step, e) ==
    /\ stdout' = Append(stdout, ErrorLine(e))
    /\ exit_code' = EXIT_FAILURE
    /\ failed' = step
    /\ pc' = "exited"

\* the report kept in memory, not written when its stage completes
WriteText_deferred(w, report) == w

\* every report file opened for writing before the first stage is written
WriteText_truncating(w, report) ==
    [r \in Reports |-> IF r = report THEN ThisRun
                       ELSE IF w[r] = ThisRun THEN ThisRun ELSE Absent]

\* path.write_text(json.dumps(report))
WriteText(w, report) == [w EXCEPT ![report] = ThisRun]

Exc(words) == [words |-> words, candidates |-> <<>>]

FileNotFoundMessage ==
    <<"Could", "not", "find", "raw", "or", "processed", "dataset", "in",
      "data/.">>

\* an empty frame returned when no candidate exists
load_dataset_empty(candidates) ==
    LET found == {i \in 1..Len(candidates) : candidates[i] # NoFile}
    IN  IF found # {}
        THEN [raised |-> FALSE, words |-> <<>>, df |-> candidates[FirstHit(found)]]
        ELSE [raised |-> FALSE, words |-> <<>>, df |-> <<>>]

\* lines 73-77
load_dataset(candidates) ==
    LET found == {i \in 1..Len(candidates) : candidates[i] # NoFile}
    IN  IF found # {}
        THEN [raised |-> FALSE, words |-> <<>>, df |-> candidates[FirstHit(found)]]
        ELSE [raised |-> TRUE, words |-> FileNotFoundMessage, df |-> <<>>]

\* line 315
LoadDataset ==
    /\ pc = "start"
    /\ LET r == load_dataset(files)
       IN  IF r.raised
           THEN /\ Abort("load_dataset", Exc(r.words))
                /\ UNCHANGED <<df>>
           ELSE /\ df' = r.df
                /\ pc' = "loaded"
                /\ UNCHANGED <<stdout, exit_code, failed>>
    /\ UNCHANGED <<files, target, resolved_by, X_all, X_nocog, y,
                   suspicious, leakage_report, written>>
    /\ UNCHANGED NotAudit

\* line 316
DetectTarget ==
    /\ pc = "loaded"
    /\ LET r == detect_target(df)
       IN  IF r.raised
           THEN /\ Abort("detect_target",
                         [words |-> r.words, candidates |-> r.candidates])
                /\ UNCHANGED <<target, resolved_by>>
           ELSE /\ target' = r.value
                /\ resolved_by' = r.stage
                /\ pc' = "target"
                /\ UNCHANGED <<stdout, exit_code, failed>>
    /\ UNCHANGED <<files, df, X_all, X_nocog, y, suspicious, leakage_report,
                   written>>
    /\ UNCHANGED NotAudit

\* lines 319-327
SplitFeatures ==
    /\ pc = "target"
    /\ LET all   == split_features(df, target, FALSE)
           nocog == split_features(df, target, TRUE)
       IN  IF all.raised
           THEN /\ Abort("split_features", Exc(all.words))
                /\ UNCHANGED <<X_all, X_nocog, y>>
           ELSE /\ X_all' = all.X
                /\ X_nocog' = nocog.X
                /\ y' = all.y
                /\ stdout' = stdout \o
                     << [words |-> <<"Target:">>, names |-> <<target>>],
                        [words |-> <<"Detected", "cognitive", "features:">>,
                         names |-> get_cognitive_columns(df)] >>
                /\ pc' = "features"
                /\ UNCHANGED <<exit_code, failed>>
    /\ UNCHANGED <<files, df, target, resolved_by, suspicious, leakage_report,
                   written>>
    /\ UNCHANGED NotAudit

\* the arrays mutual_info_classif may return for n encoded columns: the
\* estimates are non-negative; pattern 0 is all zeros
MiArrays(n) ==
    {[i \in 1..n |-> [n |-> (p * i) % 3, d |-> 10]] : p \in 0..MiPatterns}

\* lines 330-351
LeakageAudit ==
    /\ pc = "features"
    /\ \E mi_array \in MiArrays(Len(EncodedColumns(DropTarget(df, target)))) :
        LET X     == DropTarget(df, target)
            a     == single_feature_auc(X, y)
            mi    == mutual_info_scores(X, mi_array)
            susp  == Suspicious(df, target, a.aucs, mi.scores)
        IN  IF a.raised
            THEN /\ Abort("leakage", Exc(a.words))
                 /\ UNCHANGED <<suspicious, leakage_report, written>>
            ELSE IF mi.raised
            THEN /\ Abort("leakage", Exc(NoFeatureMessage))
                 /\ UNCHANGED <<suspicious, leakage_report, written>>
            ELSE /\ suspicious' = susp
                 /\ leakage_report' =
                        [target |-> target,
                         cognitive_features_detected |-> get_cognitive_columns(df),
                         top_suspicious_by_auc_mi |-> TopSuspicious(susp),
                         proxy_flags |-> ProxyFlags(X, a.aucs)]
                 /\ written' = WriteText(written, "leakage_audit_report")
                 /\ pc' = "leakage_done"
                 /\ UNCHANGED <<stdout, exit_code, failed>>
    /\ UNCHANGED <<files, df, target, resolved_by, X_all, X_nocog, y>>
    /\ UNCHANGED NotAudit

\* what the fits and the scoring of the later stages raise, when they do
StratifyMessage ==
    <<"The", "least", "populated", "class", "in", "y", "has", "only", "1",
      "member,", "which", "is", "too", "few.">>

SortMessage ==
    <<"'<'", "not", "supported", "between", "instances", "of", "'str'",
      "and", "'int'">>

SplitsMessage ==
    <<"n_splits=5", "cannot", "be", "greater", "than", "the", "number", "of",
      "members", "in", "each", "class.">>

\* lines 354-367: the with/without comparison; its fits succeed or raise
Holdout ==
    /\ pc = "leakage_done"
    /\ \E ok \in BOOLEAN :
        IF ok
        THEN /\ written' = WriteText(written, "with_without_cognitive_metrics")
             /\ pc' = "holdout_done"
             /\ UNCHANGED <<stdout, exit_code, failed>>
        ELSE /\ Abort("holdout", Exc(StratifyMessage))
             /\ UNCHANGED written
    /\ UNCHANGED <<files, df, target, resolved_by, X_all, X_nocog, y,
                   suspicious, leakage_report>>
    /\ UNCHANGED NotAudit

\* lines 370-371
TemporalSite ==
    /\ pc = "holdout_done"
    /\ \E ok \in BOOLEAN :
        IF ok
        THEN /\ written' = WriteText(written, "temporal_site_validation")
             /\ pc' = "temporal_done"
             /\ UNCHANGED <<stdout, exit_code, failed>>
        ELSE /\ Abort("temporal", Exc(SortMessage))
             /\ UNCHANGED written
    /\ UNCHANGED <<files, df, target, resolved_by, X_all, X_nocog, y,
                   suspicious, leakage_report>>
    /\ UNCHANGED NotAudit

CompletionSummary ==
    << [words |-> <<"Audit", "complete.", "Reports", "saved", "to",
                    "'reports/'.">>, names |-> <<>>],
       [words |-> <<"-", "leakage_audit_report.json">>, names |-> <<>>],
       [words |-> <<"-", "with_without_cognitive_metrics.json">>, names |-> <<>>],
       [words |-> <<"-", "temporal_site_validation.json">>, names |-> <<>>],
       [words |-> <<"-", "nested_cv_summary.json">>, names |-> <<>>] >>

EXIT_SUCCESS == 0

\* lines 374-394: nested CV of both model families, the last report, the
\* completion summary; main() returns and the process ends normally
NestedCV ==
    /\ pc = "temporal_done"
    /\ \E ok \in BOOLEAN :
        IF ok
        THEN /\ written' = WriteText(written, "nested_cv_summary")
             /\ stdout' = stdout \o CompletionSummary
             /\ exit_code' = EXIT_SUCCESS
             /\ pc' = "complete"
             /\ UNCHANGED failed
        ELSE /\ Abort("nested_cv", Exc(SplitsMessage))
             /\ UNCHANGED written
    /\ UNCHANGED <<files, df, target, resolved_by, X_all, X_nocog, y,
                   suspicious, leakage_report>>
    /\ UNCHANGED NotAudit

Next ==
    \/ LoadDataset
    \/ DetectTarget
    \/ SplitFeatures
    \/ LeakageAudit
    \/ Holdout
    \/ TemporalSite
    \/ NestedCV

Spec == Init /\ [][Next]_vars

(***************************************************************************)
(* single_feature_auc on a binary column and its complement                *)
(***************************************************************************)
BitIds == {201 + code : code \in 0..(2 ^ Cardinality(Rows) - 1)}

\* the column with 0 and 1 swapped in every row
Complement(id) == 201 + (2 ^ Cardinality(Rows) - 1) - (id - 201)

\* the 0/1 targets, single-class ones included
TargetVectors == {Col(id).vals : id \in BitIds}

InitAuc ==
    /\ AuditIdle /\ GsIdle /\ CvIdle /\ SplitIdle /\ RoleIdle /\ ApiIdle
    /\ RiskIdle
    /\ FitIdle
    /\ BatchIdle
    /\ auc_pc = "input"
    /\ \E x \in BitIds : auc_X = <<x, Complement(x)>>
    /\ auc_y \in TargetVectors
    /\ aucs = <<>>

\* lines 172-189
SingleFeatureAuc ==
    /\ auc_pc = "input"
    /\ aucs' = single_feature_auc(auc_X, auc_y).aucs
    /\ auc_pc' = "scored"
    /\ UNCHANGED <<auc_X, auc_y>>
    /\ UNCHANGED NotAuc

NextAuc == SingleFeatureAuc

SpecAuc == InitAuc /\ [][NextAuc]_vars

(***************************************************************************)
(* The inner hyperparameter search of an outer fold (GridSearchCV)         *)
(***************************************************************************)
\* the number of score patterns tried beyond the all-equal one
ScorePatterns == 3

\* line 377: the grid of the logistic regression, keys in declared order
LR_GRID ==
    << [key |-> <<"C">>, values |-> <<"0.1", "1.0", "10.0">>],
       [key |-> <<"p","e","n","a","l","t","y">>, values |-> <<"l1", "l2">>],
       [key |-> <<"s","o","l","v","e","r">>, values |-> <<"liblinear">>] >>

\* line 383: the grid of the gradient boosting, keys in declared order
GB_GRID ==
    << [key |-> <<"n","_","e","s","t","i","m","a","t","o","r","s">>,
        values |-> <<"100", "200">>],
       [key |-> <<"l","e","a","r","n","i","n","g","_","r","a","t","e">>,
        values |-> <<"0.05", "0.1">>],
       [key |-> <<"m","a","x","_","d","e","p","t","h">>,
        values |-> <<"2", "3", "5">>] >>

\* line 241: {f"clf__{k}": v for k, v in param_grid.items()}
Prefixed(grid) ==
    [i \in 1..Len(grid) |->
        [key |-> <<"c","l","f","_","_">> \o grid[i].key,
         values |-> grid[i].values]]

RECURSIVE Product(_)
\* the points of the grid whose keys are items, the last key varying fastest
Product(items) ==
    IF items = <<>> THEN << <<>> >>
    ELSE LET rest == Product(Tail(items))
             RECURSIVE Over(_)
             Over(vs) ==
                 IF vs = <<>> THEN <<>>
                 ELSE [j \in 1..Len(rest) |->
                          <<[key |-> Head(items).key, value |-> Head(vs)]>>
                          \o rest[j]]
                      \o Over(Tail(vs))
         IN  Over(Head(items).values)

\* list(ParameterGrid(grid)): the keys are sorted, then the product is taken
ParameterGrid(grid) ==
    LET keys  == SortedNames({grid[i].key : i \in 1..Len(grid)})
        items == [k \in 1..Len(keys) |->
                    grid[CHOOSE i \in 1..Len(grid) : grid[i].key = keys[k]]]
    IN  Product(items)

\* the results listed in the order the evaluations completed
Collect_arrival(arrival, scores) ==
    [i \in 1..Len(arrival) |-> scores[arrival[i]]]

\* the list the parallel evaluation returns: one result per candidate, in
\* the order the candidates were submitted, whatever order they completed in
Collect(arrival, scores) ==
    [c \in 1..Len(arrival) |-> scores[c]]

\* rank_test_score: 1 + the number of candidates with a better mean score
RankTestScore(means) ==
    [i \in 1..Len(means) |->
        1 + Cardinality({j \in 1..Len(means) : Lt(means[i], means[j])})]

\* best_index_ = rank_test_score.argmin(): the first index of the least
\* rank, which is rank 1
BestIndex(means) ==
    FirstHit({i \in 1..Len(means) : RankTestScore(means)[i] = 1})

\* the mean validation score of candidate c under pattern p, in quarters
PatternScores(n, p) == [c \in 1..n |-> [n |-> (p * c) % 4, d |-> 4]]

InitSearch ==
    /\ AuditIdle /\ AucIdle /\ CvIdle /\ SplitIdle /\ RoleIdle /\ ApiIdle
    /\ RiskIdle
    /\ FitIdle
    /\ BatchIdle
    /\ gs_pc = "searching"
    /\ gs_candidates = ParameterGrid(Prefixed(LR_GRID))
    /\ \E p \in 0..ScorePatterns :
          gs_scores = PatternScores(Len(ParameterGrid(Prefixed(LR_GRID))), p)
    /\ gs_arrival = <<>>
    /\ gs_best = <<>>

\* the evaluation of one more candidate completes (n_jobs=-1: any of them)
CandidateCompletes ==
    /\ gs_pc = "searching"
    /\ \E c \in 1..Len(gs_candidates) :
          /\ ~InSeq(c, gs_arrival)
          /\ gs_arrival' = Append(gs_arrival, c)
    /\ UNCHANGED <<gs_pc, gs_candidates, gs_scores, gs_best>>
    /\ UNCHANGED NotGs

\* lines 238-248: all evaluations are in; the best candidate is selected
SelectBest ==
    /\ gs_pc = "searching"
    /\ Len(gs_arrival) = Len(gs_candidates)
    /\ LET means == Collect(gs_arrival, gs_scores)
           best  == BestIndex(means)
       IN  gs_best' = [best_index  |-> best,
                       best_params |-> gs_candidates[best],
                       best_score  |-> means[best]]
    /\ gs_pc' = "selected"
    /\ UNCHANGED <<gs_candidates, gs_scores, gs_arrival>>
    /\ UNCHANGED NotGs

NextSearch ==
    \/ CandidateCompletes
    \/ SelectBest

SpecSearch == InitSearch /\ [][NextSearch]_vars

(***************************************************************************)
(* nested_cv_scores                                                        *)
(***************************************************************************)
\* rows of the frame beyond N_OUTER rows per class
ExtraRows == 0

N_OUTER == 5

\* X.index: the positive rows first
CvRows == 1..(2 * N_OUTER + ExtraRows)

\* the label vectors passed: N_OUTER negative rows, or one fewer
LabelVectors ==
    {[r \in CvRows |-> IF r <= k THEN 1 ELSE 0] :
        k \in {N_OUTER + ExtraRows, N_OUTER + ExtraRows + 1}}

CvY == cv_y

Folds == 1..N_OUTER

\* StratifiedKFold: the number of test rows of class c in fold i, read off
\* the sorted labels (class 0 first) dealt round-robin to the folds
Allocation(c, i) ==
    LET n0        == Cardinality({r \in CvRows : CvY[r] = 0})
        class(p)  == IF p < n0 THEN 0 ELSE 1
    IN  Cardinality({p \in 0..(Cardinality(CvRows) - 1) :
                        p % N_OUTER = i - 1 /\ class(p) = c})

\* the test index sets outer.split can yield for fold i when the rows in
\* done were yielded by the earlier folds: the shuffle (random_state fixed,
\* its outcome not modelled) decides which rows of each class they are
TestSets(i, done) ==
    {tp \cup tn :
        tp \in {S \in SUBSET {r \in CvRows \ done : CvY[r] = 1} :
                    Cardinality(S) = Allocation(1, i)},
        tn \in {S \in SUBSET {r \in CvRows \ done : CvY[r] = 0} :
                    Cardinality(S) = Allocation(0, i)}}

\* X.iloc[idx] with every row of the frame
Iloc_all(idx) == CvRows

\* X.iloc[idx]: a frame is kept as the set of its rows
Iloc(idx) == idx

\* the stand-in for a fitted pipeline's predict_proba on row r: the share
\* of positive rows among the rows fitted on that have the parity of r
PredictProba(fitted_on, r) ==
    [n |-> Cardinality({q \in fitted_on : q % 2 = r % 2 /\ CvY[q] = 1}),
     d |-> Cardinality({q \in fitted_on : q % 2 = r % 2})]

\* roc_auc_score(yte, proba) over the rows te
RocAuc(te, proba) ==
    LET P    == {r \in te : CvY[r] = 1}
        N    == te \ P
        wins == Cardinality({pq \in P \X N : Lt(proba[pq[2]], proba[pq[1]])})
        ties == Cardinality({pq \in P \X N : Eq(proba[pq[1]], proba[pq[2]])})
    IN  [n |-> 2 * wins + ties, d |-> 2 * Cardinality(P) * Cardinality(N)]

\* roc_auc_score raises ValueError when y_true has a single class
RocAucRaises(te) == Cardinality({CvY[r] : r \in te}) < 2

\* enumerate(..., start=0)
Enumerate_zero(position) == position - 1

\* enumerate(outer.split(X, y), start=1): the number of the fold at a position
Enumerate(position) == position

\* the stand-in for the mean inner validation score of candidate c
InnerCvScore(c, Xtr) ==
    [n |-> (c * Cardinality({r \in Xtr : r % 2 = 0})) % 4, d |-> 4]

\* search.fit(Xtr, ytr): the selection, then the refit of a clone of the
\* pipeline with the best parameters on all of Xtr
GridSearchFit(candidates, Xtr) ==
    LET means == [c \in 1..Len(candidates) |-> InnerCvScore(c, Xtr)]
        best  == BestIndex(means)
    IN  [best_params    |-> candidates[best],
         best_score     |-> means[best],
         best_estimator |-> [params |-> candidates[best], fitted_on |-> Xtr]]

RECURSIVE SumScores(_)
SumScores(scores) ==
    IF scores = <<>> THEN Zero
    ELSE LET a == Head(scores)
             b == SumScores(Tail(scores))
         IN  [n |-> a.n * b.d + b.n * a.d, d |-> a.d * b.d]

\* np.mean
Mean(scores) ==
    [n |-> SumScores(scores).n, d |-> SumScores(scores).d * Len(scores)]

InitCV ==
    /\ AuditIdle /\ AucIdle /\ GsIdle /\ SplitIdle /\ RoleIdle /\ ApiIdle
    /\ RiskIdle
    /\ FitIdle
    /\ BatchIdle
    /\ cv_pc = "folds"
    /\ cv_candidates \in {ParameterGrid(Prefixed(LR_GRID)),
                         ParameterGrid(Prefixed(GB_GRID))}
    /\ cv_y \in LabelVectors
    /\ cv_tested = [r \in CvRows |-> 0]
    /\ cv_fit = <<>>
    /\ outer_scores = <<>>
    /\ fold_details = <<>>
    /\ cv_summary = <<>>

\* lines 234-257: one pass of the loop over the outer folds; an exception
\* of line 250 leaves nested_cv_scores before anything is appended
OuterFold ==
    /\ cv_pc = "folds"
    /\ Len(fold_details) < N_OUTER
    /\ \E te_idx \in TestSets(Len(fold_details) + 1,
                              {r \in CvRows : cv_tested[r] > 0}) :
       \E search \in {GridSearchFit(cv_candidates, Iloc(CvRows \ te_idx))} :
        LET fold_idx == Enumerate(Len(fold_details) + 1)
            tr_idx   == CvRows \ te_idx
            Xte      == Iloc(te_idx)
            best     == search.best_estimator
            proba    == [r \in Xte |-> PredictProba(best.fitted_on, r)]
            auc      == RocAuc(Xte, proba)
        IN  /\ cv_tested' = [r \in CvRows |->
                                IF r \in te_idx THEN cv_tested[r] + 1
                                ELSE cv_tested[r]]
            /\ cv_fit' = [tr_idx |-> tr_idx, te_idx |-> te_idx,
                          fitted_on |-> best.fitted_on,
                          scored |-> DOMAIN proba]
            /\ IF RocAucRaises(Xte)
               THEN /\ cv_pc' = "raised"
                    /\ UNCHANGED <<outer_scores, fold_details>>
               ELSE /\ outer_scores' = Append(outer_scores, auc)
                    /\ fold_details' = Append(fold_details,
                                          [fold        |-> fold_idx,
                                           best_params |-> search.best_params,
                                           val_score   |-> search.best_score,
                                           test_auc    |-> auc])
                    /\ UNCHANGED cv_pc
    /\ UNCHANGED <<cv_candidates, cv_y, cv_summary>>
    /\ UNCHANGED NotCv

\* lines 259-264; std_auc is the square root of the variance kept here
ReturnSummary ==
    /\ cv_pc = "folds"
    /\ Len(fold_details) = N_OUTER
    /\ cv_summary' = [outer_scores |-> outer_scores,
                      mean_auc     |-> Mean(outer_scores),
                      folds        |-> fold_details]
    /\ cv_pc' = "returned"
    /\ UNCHANGED <<cv_candidates, cv_y, cv_tested, cv_fit, outer_scores,
                   fold_details>>
    /\ UNCHANGED NotCv

NextCV ==
    \/ OuterFold
    \/ ReturnSummary

SpecCV == InitCV /\ [][NextCV]_vars

(***************************************************************************)
(* The temporal split sizes.  0.7 * n and 0.85 * n are products of IEEE 754 *)
(* doubles: a double is kept as the 53 bits of its significand, least      *)
(* significant bit first, and a product is rounded to nearest, ties to     *)
(* even, before int() truncates it.                                        *)
(***************************************************************************)
\* largest number of rows of the sorted frame
MaxSplitRows == 500

\* the significand has 53 bits
SIGNIFICAND_BITS == 53

\* the literal 0.7 (line 281): its significand m, the double being m / 2^53
DOUBLE_0_7 ==
    << 0, 1, 1, 0, 0, 1, 1, 0, 0, 1, 1, 0, 0, 1, 1, 0, 0, 1, 1, 0, 0, 1, 1, 0, 0, 1, 1,
       0, 0, 1, 1, 0, 0, 1, 1, 0, 0, 1, 1, 0, 0, 1, 1, 0, 0, 1, 1, 0, 0, 1, 1, 0, 1 >>

\* the literal 0.85 (line 282), likewise
DOUBLE_0_85 ==
    << 1, 1, 0, 0, 1, 1, 0, 0, 1, 1, 0, 0, 1, 1, 0, 0, 1, 1, 0, 0, 1, 1, 0, 0, 1, 1, 0,
       0, 1, 1, 0, 0, 1, 1, 0, 0, 1, 1, 0, 0, 1, 1, 0, 0, 1, 1, 0, 0, 1, 1, 0, 1, 1 >>

RECURSIVE TimesNat(_, _, _)
\* the bits of bits * n + carry, exactly
TimesNat(bits, n, carry) ==
    IF bits = <<>>
    THEN IF carry = 0 THEN <<>>
         ELSE <<carry % 2>> \o TimesNat(<<>>, n, carry \div 2)
    ELSE LET t == Head(bits) * n + carry
         IN  <<t % 2>> \o TimesNat(Tail(bits), n, t \div 2)

\* the position of the most significant 1, 0 for zero
BitLength(bits) ==
    LET ones == {i \in 1..Len(bits) : bits[i] = 1}
    IN  IF ones = {} THEN 0 ELSE CHOOSE i \in ones : \A j \in ones : j <= i

RECURSIVE PlusOne(_)
PlusOne(bits) ==
    IF bits = <<>> THEN <<1>>
    ELSE IF Head(bits) = 0 THEN <<1>> \o Tail(bits)
    ELSE <<0>> \o PlusOne(Tail(bits))

RECURSIVE NatOf(_)
NatOf(bits) == IF bits = <<>> THEN 0 ELSE Head(bits) + 2 * NatOf(Tail(bits))

\* int(x * n) for the double x of significand bits (1/2 <= x < 1) and an
\* int n: the exact product has its lowest `drop` bits rounded away
IntOfProduct(significand, n) ==
    LET exact   == TimesNat(significand, n, 0)
        len     == BitLength(exact)
        drop    == IF len > SIGNIFICAND_BITS THEN len - SIGNIFICAND_BITS ELSE 0
        kept    == SubSeq(exact, drop + 1, len)
        half    == drop > 0 /\ exact[drop] = 1
        sticky  == \E i \in 1..(drop - 1) : exact[i] = 1
        up      == half /\ (sticky \/ kept[1] = 1)
        rounded == IF up THEN PlusOne(kept) ELSE kept
    IN  NatOf(SubSeq(rounded, SIGNIFICAND_BITS - drop + 1, Len(rounded)))

\* lines 280-291
SplitSizes(n) ==
    LET tr_end  == IntOfProduct(DOUBLE_0_7, n)
        val_end == IntOfProduct(DOUBLE_0_85, n)
    IN  [train |-> tr_end, val |-> val_end - tr_end, test |-> n - val_end]

InitSplit ==
    /\ AuditIdle /\ AucIdle /\ GsIdle /\ CvIdle /\ RoleIdle /\ ApiIdle
    /\ RiskIdle
    /\ FitIdle
    /\ BatchIdle
    /\ split_pc = "input"
    /\ split_n \in 0..MaxSplitRows
    /\ split_sizes = <<>>

\* lines 280-291, n = len(df_sorted) being the number of rows of df
TemporalSplit ==
    /\ split_pc = "input"
    /\ split_sizes' = SplitSizes(split_n)
    /\ split_pc' = "sized"
    /\ UNCHANGED split_n
    /\ UNCHANGED NotSplit

NextSplit == TemporalSplit

SpecSplit == InitSplit /\ [][NextSplit]_vars

(***************************************************************************)
(* Feature sets and the temporal / site assessment of a frame whose        *)
(* columns have identifier, cognitive, site and temporal roles             *)
(***************************************************************************)
\* longest frame of role columns
MaxRoleCols == 3

\* the strings pd.to_datetime parses
DateStrings == {"2020-01-05", "2021-03-01", "2022-07-09"}

\* pd.to_datetime(s, errors="raise"): numbers are read as nanoseconds since
\* the epoch, out of bounds beyond 2^63 - 1, and missing values as NaT; text
\* must be a date
ToDatetimeRaises(c) ==
    \/ c.dtype = "cat" /\ \E r \in Rows : c.vals[r] \notin DateStrings \cup {"nan"}
    \/ c.dtype = "num" /\ \E r \in Rows : c.vals[r] >= Beyond

\* pd.api.types.is_integer_dtype: a numeric column with a missing value is
\* a float column
IsIntegerDtype(c) == c.dtype = "num" /\ NaN \notin Range(c.vals)

\* lines 125-127; NoName stands for None
get_site_column(frame) ==
    LET candidates == find_columns_by_tokens(frame, SITE_TOKENS)
    IN  IF candidates # <<>> THEN candidates[1] ELSE NoName

\* the frame's first column when no name matches
get_date_column_first(frame) ==
    LET candidates == find_columns_by_tokens(frame, DATE_TOKENS)
    IN  IF candidates # <<>> THEN candidates[1] ELSE Name(frame[1])

\* lines 130-142
get_date_column(frame) ==
    LET candidates == find_columns_by_tokens(frame, DATE_TOKENS)
        returns    == {i \in 1..Len(candidates) :
                          LET c == Col(ColId(frame, candidates[i]))
                          IN  ~ToDatetimeRaises(c) \/ IsIntegerDtype(c)}
    IN  IF returns # {} THEN candidates[FirstHit(returns)]
        ELSE IF candidates # <<>> THEN candidates[1]
        ELSE NoName

TemporalMessage ==
    <<"No", "date/year", "column", "detected;", "temporal", "split",
      "skipped.">>

SiteMessage ==
    <<"No", "site/hospital", "column", "detected;", "site", "validation",
      "suggestion", "recorded.">>

NoSizes == [train |-> 0 - 1, val |-> 0 - 1, test |-> 0 - 1]

\* a missing cell: NaN in a numeric column, "nan" in a text column
IsMissing(c, r) == c.vals[r] = (IF c.dtype = "num" THEN NaN ELSE "nan")

\* df[site_col].nunique(): the missing values are not counted
NGroups_dropna(c) == Cardinality({c.vals[r] : r \in {q \in Rows : ~IsMissing(c, q)}})

\* groups.nunique() of df[site_col].astype(str): a missing value becomes
\* the string 'nan', one more value
NGroups(c) == Cardinality({c.vals[r] : r \in Rows})

\* lines 267-307; sorted records whether df.sort_values was called
temporal_site_validation(frame, tgt) ==
    LET date_col == get_date_column(frame)
        site_col == get_site_column(frame)
    IN  [temporal |->
            IF date_col # NoName
            THEN [date_column |-> date_col,
                  sizes |-> SplitSizes(Cardinality(Rows)),
                  message |-> <<>>]
            ELSE [date_column |-> NoName, sizes |-> NoSizes,
                  message |-> TemporalMessage],
         site |->
            IF site_col # NoName
            THEN [site_column |-> site_col,
                  n_groups |-> NGroups(Col(ColId(frame, site_col))),
                  message |-> <<>>]
            ELSE [site_column |-> NoName, n_groups |-> 0 - 1,
                  message |-> SiteMessage],
         sorted |-> date_col # NoName,
         raised |-> FALSE]

RolePool == {1, 5, 7, 8} \cup {100 + k : k \in 1..Len(RoleCatalogue)}

RECURSIVE RoleSeqs(_)
\* the sequences of distinct pool columns of length up to n
RoleSeqs(n) ==
    IF n = 0 THEN {<<>>}
    ELSE LET shorter == RoleSeqs(n - 1)
         IN  shorter \cup
             {Append(s, c) : s \in {t \in shorter : Len(t) = n - 1},
                             c \in RolePool}

\* the frames main() gets past detect_target with
RoleDatasets ==
    {s \in RoleSeqs(MaxRoleCols) :
        /\ s # <<>>
        /\ \A i, j \in 1..Len(s) : i # j => s[i] # s[j]
        /\ ~detect_target(s).raised}

InitRoles ==
    /\ AuditIdle /\ AucIdle /\ GsIdle /\ CvIdle /\ SplitIdle /\ ApiIdle
    /\ RiskIdle
    /\ FitIdle
    /\ BatchIdle
    /\ role_pc = "input"
    /\ role_df \in RoleDatasets
    /\ role_target = NoName
    /\ role_features = <<>>
    /\ role_temporal = <<>>

\* lines 316-321: the target, then the two feature sets
RoleSplitFeatures ==
    /\ role_pc = "input"
    /\ LET tgt   == detect_target(role_df).value
           all   == split_features(role_df, tgt, FALSE)
           nocog == split_features(role_df, tgt, TRUE)
       IN  /\ role_target' = tgt
           /\ IF all.raised
              THEN /\ role_pc' = "raised"
                   /\ UNCHANGED role_features
              ELSE /\ role_pc' = "split"
                   /\ role_features' = [used_all   |-> all.used_cols,
                                        used_nocog |-> nocog.used_cols]
    /\ UNCHANGED <<role_df, role_temporal>>
    /\ UNCHANGED NotRole

\* line 370
RoleTemporalSite ==
    /\ role_pc = "split"
    /\ role_temporal' = temporal_site_validation(role_df, role_target)
    /\ role_pc' = "assessed"
    /\ UNCHANGED <<role_df, role_target, role_features>>
    /\ UNCHANGED NotRole

NextRoles ==
    \/ RoleSplitFeatures
    \/ RoleTemporalSite

SpecRoles == InitRoles /\ [][NextRoles]_vars

(***************************************************************************)
(* The prediction API (api/main.py).  A probability is kept as a whole     *)
(* number of hundred-thousandths.                                          *)
(***************************************************************************)
\* the number of predictions a run of the server is followed for
MaxPredictions == 3

\* config.py: EXPECTED_FEATURES
EXPECTED_FEATURES == 32

\* models.py: min_length and max_length of PatientInput.features
FEATURES_MIN_LENGTH == 32

FEATURES_MAX_LENGTH == 32

ArtifactKeys == <<"model", "scaler", "feature_names">>

\* the probabilities the model returns: the thresholds, their neighbours,
\* and values that are not half way between two 4-decimal numbers
ProbGrid ==
    {0, 1, 39994, 39996, 39999, 40000, 40001, 49994, 49996, 50000, 64999,
     65000, 65001, 79994, 79996, 79999, 80000, 80001, 99999, 100000}

\* the lengths of the features list a client sends
FeatureCounts == {0, 3, 31, 32, 33}

\* the level a threshold is included in
calculate_risk_level_inclusive(probability) ==
    IF probability <= 40000 THEN "Low"
    ELSE IF probability <= 65000 THEN "Moderate"
    ELSE IF probability <= 80000 THEN "High"
    ELSE "Critical"

\* main.py lines 86-95
calculate_risk_level(probability) ==
    IF probability < 40000 THEN "Low"
    ELSE IF probability < 65000 THEN "Moderate"
    ELSE IF probability < 80000 THEN "High"
    ELSE "Critical"

\* main.py lines 98-106
calculate_confidence(probability) ==
    LET distance == IF probability >= 50000 THEN probability - 50000
                    ELSE 50000 - probability
    IN  IF distance >= 30000 THEN "High confidence"
        ELSE IF distance >= 15000 THEN "Moderate confidence"
        ELSE "Low confidence (borderline case)"

\* round(probability, 4), for a probability not half way between two
\* 4-decimal numbers
Round4(probability) == 10 * ((probability + 5) \div 10)

\* the failure to load an artifact logged, the server left to start
lifespan_lenient(loadable) ==
    [raised |-> FALSE,
     artifacts |-> {ArtifactKeys[i] : i \in
        {j \in 1..Len(ArtifactKeys) :
            \A k \in 1..j : ArtifactKeys[k] \in loadable}}]

\* main.py lines 39-52: the three joblib.load calls in order; the first
\* that fails ends the startup with RuntimeError, the earlier keys stay
lifespan(loadable) ==
    [raised |-> \E i \in 1..Len(ArtifactKeys) : ArtifactKeys[i] \notin loadable,
     artifacts |-> {ArtifactKeys[i] : i \in
        {j \in 1..Len(ArtifactKeys) :
            \A k \in 1..j : ArtifactKeys[k] \in loadable}}]

NoResponse ==
    [endpoint |-> "none", status_code |-> 0, status |-> "", model_loaded |-> FALSE,
     features |-> 0 - 1, prediction |-> 0 - 1, probability |-> 0 - 1,
     risk_level |-> "", confidence |-> "", detail |-> ""]

\* all(key in model_artifacts for key in [...])
ModelLoaded(artifacts) ==
    \A i \in 1..Len(ArtifactKeys) : ArtifactKeys[i] \in artifacts

\* main.py lines 147-166
health_check(artifacts) ==
    [NoResponse EXCEPT
        !.endpoint = "/health",
        !.status_code = 200,
        !.status = IF ModelLoaded(artifacts) THEN "healthy" ELSE "unhealthy",
        !.model_loaded = ModelLoaded(artifacts)]

\* the validation of the request body against PatientInput (models.py
\* lines 12-17), done before the handler is called
PatientInputValid(n_features) ==
    n_features >= FEATURES_MIN_LENGTH /\ n_features <= FEATURES_MAX_LENGTH

\* main.py lines 246-318, behind the validation of the request body.
\* probability is what predict_proba returns; fails tells whether scaling
\* or the model raises
predict(artifacts, n_features, probability, fails) ==
    LET base == [NoResponse EXCEPT !.endpoint = "/predict",
                                   !.features = n_features]
    IN  IF ~PatientInputValid(n_features)
        THEN [base EXCEPT !.status_code = 422,
                          !.detail = "List should have at least/at most 32 items"]
        ELSE IF ~ModelLoaded(artifacts)
        THEN [base EXCEPT !.status_code = 503,
                          !.detail = "Model not loaded. Please check server logs."]
        ELSE IF n_features # EXPECTED_FEATURES
        THEN [base EXCEPT !.status_code = 400,
                          !.detail = "Expected 32 features"]
        ELSE IF fails
        THEN [base EXCEPT !.status_code = 500,
                          !.detail = "Prediction failed"]
        ELSE [base EXCEPT
                !.status_code = 200,
                !.prediction = IF probability >= 50000 THEN 1 ELSE 0,
                !.probability = Round4(probability),
                !.risk_level = calculate_risk_level(probability),
                !.confidence = calculate_confidence(probability)]

\* whether predict reaches scaler.transform and model.predict_proba
CallsModel(artifacts, n_features) ==
    /\ PatientInputValid(n_features)
    /\ ModelLoaded(artifacts)
    /\ n_features = EXPECTED_FEATURES

InitApi ==
    /\ AuditIdle /\ AucIdle /\ GsIdle /\ CvIdle /\ SplitIdle /\ RoleIdle
    /\ RiskIdle
    /\ FitIdle
    /\ BatchIdle
    /\ api_pc = "starting"
    /\ api_files \in SUBSET Range(ArtifactKeys)
    /\ model_artifacts = {}
    /\ api_response = NoResponse
    /\ api_predicted = 0

\* the startup half of lifespan; the server accepts requests only after it
Startup ==
    /\ api_pc = "starting"
    /\ LET r == lifespan(api_files)
       IN  /\ model_artifacts' = r.artifacts
           /\ api_pc' = IF r.raised THEN "failed" ELSE "serving"
    /\ UNCHANGED <<api_files, api_response, api_predicted>>
    /\ UNCHANGED NotApi

\* GET /health
HealthCheck ==
    /\ api_pc = "serving"
    /\ api_response' = health_check(model_artifacts)
    /\ UNCHANGED <<api_pc, api_files, model_artifacts, api_predicted>>
    /\ UNCHANGED NotApi

\* POST /predict
Predict ==
    /\ api_pc = "serving"
    /\ api_predicted < MaxPredictions
    /\ \E n_features \in FeatureCounts, probability \in ProbGrid,
          fails \in BOOLEAN :
          /\ api_response' =
                predict(model_artifacts, n_features, probability, fails)
          /\ api_predicted' =
                IF CallsModel(model_artifacts, n_features)
                THEN api_predicted + 1 ELSE api_predicted
    /\ UNCHANGED <<api_pc, api_files, model_artifacts>>
    /\ UNCHANGED NotApi

\* main.py lines 56-57: the shutdown half of lifespan
Shutdown ==
    /\ api_pc = "serving"
    /\ model_artifacts' = {}
    /\ api_pc' = "stopped"
    /\ UNCHANGED <<api_files, api_response, api_predicted>>
    /\ UNCHANGED NotApi

NextApi ==
    \/ Startup
    \/ HealthCheck
    \/ Predict
    \/ Shutdown

SpecApi == InitApi /\ [][NextApi]_vars

(***************************************************************************)
(* calculate_risk_level on two probabilities                               *)
(***************************************************************************)
InitRisk ==
    /\ AuditIdle /\ AucIdle /\ GsIdle /\ CvIdle /\ SplitIdle /\ RoleIdle
    /\ ApiIdle
    /\ FitIdle
    /\ BatchIdle
    /\ risk_pc = "input"
    /\ risk_p \in ProbGrid \X ProbGrid
    /\ risk_levels = <<>>

RiskLevels ==
    /\ risk_pc = "input"
    /\ risk_levels' = <<calculate_risk_level(risk_p[1]),
                        calculate_risk_level(risk_p[2])>>
    /\ risk_pc' = "levelled"
    /\ UNCHANGED risk_p
    /\ UNCHANGED NotRisk

NextRisk == RiskLevels

SpecRisk == InitRisk /\ [][NextRisk]_vars

(***************************************************************************)
(* The estimator objects of the holdout comparison and of nested CV.  An   *)
(* object is known by its position in `objects`; fitted_in names the       *)
(* evaluations in which fit() was called on it.                            *)
(***************************************************************************)
\* fits of candidate clones followed per inner search
InnerFits == 4

\* the objects main() binds to gb and lr
GB == 1

LR == 2

Families == <<"logistic_regression", "gradient_boosting">>

\* the model object passed to nested_cv_scores for a family
ModelOf(family) == IF family = "gradient_boosting" THEN GB ELSE LR

Unfitted(class, steps) == [class |-> class, steps |-> steps, fitted_in |-> {}]

\* lines 154-165: a new ColumnTransformer and a new Pipeline around the
\* model object passed; the new pipeline is the last object
build_pipeline(objs, model) ==
    objs \o << Unfitted("ColumnTransformer", <<>>),
               Unfitted("Pipeline", <<Len(objs) + 1, model>>) >>

\* sklearn.base.clone of a pipeline: new unfitted copies of its steps and
\* of the pipeline; the copy is the last object
clone(objs, pipe) ==
    objs \o << Unfitted(objs[objs[pipe].steps[1]].class, <<>>),
               Unfitted(objs[objs[pipe].steps[2]].class, <<>>),
               Unfitted("Pipeline", <<Len(objs) + 1, Len(objs) + 2>>) >>

\* pipe.fit(Xtr, ytr): fits the steps in place, then the pipeline is fitted
PipeFit(objs, pipe, evaluation) ==
    [i \in 1..Len(objs) |->
        IF i = pipe \/ InSeq(i, objs[pipe].steps)
        THEN [objs[i] EXCEPT !.fitted_in = @ \cup {evaluation}]
        ELSE objs[i]]

RECURSIVE Clones(_, _, _)
\* the clones GridSearchCV dispatches, one per fit of a candidate
Clones(objs, pipe, n) ==
    IF n = 0 THEN objs ELSE Clones(clone(objs, pipe), pipe, n - 1)

InitFit ==
    /\ AuditIdle /\ AucIdle /\ GsIdle /\ CvIdle /\ SplitIdle /\ RoleIdle
    /\ ApiIdle /\ RiskIdle
    /\ BatchIdle
    /\ fit_pc = "start"
    /\ objects = <<>>
    /\ fit_pipes = <<>>
    /\ fit_family = "none"
    /\ fit_fold = 0
    /\ fit_pending = {}

\* lines 354-355
MakeModels ==
    /\ fit_pc = "start"
    /\ objects' = << Unfitted("GradientBoostingClassifier", <<>>),
                     Unfitted("LogisticRegression", <<>>) >>
    /\ fit_pc' = "models"
    /\ UNCHANGED <<fit_pipes, fit_family, fit_fold, fit_pending>>
    /\ UNCHANGED NotFit

\* lines 357-358: pipe_gb_all and pipe_gb_nocog, both around gb
BuildPipelines ==
    /\ fit_pc = "models"
    /\ LET first  == build_pipeline(objects, GB)
           second == build_pipeline(first, GB)
       IN  /\ objects' = second
           /\ fit_pipes' = <<Len(first), Len(second)>>
    /\ fit_pc' = "pipelines"
    /\ UNCHANGED <<fit_family, fit_fold, fit_pending>>
    /\ UNCHANGED NotFit

\* lines 360-361 with 212: one call of eval_split
EvalSplit ==
    /\ fit_pc = "pipelines"
    /\ LET part == fit_fold + 1
       IN  /\ objects' = PipeFit(objects, fit_pipes[part],
                                 [stage |-> "holdout", part |-> part])
           /\ IF part < Len(fit_pipes)
              THEN /\ fit_fold' = part
                   /\ UNCHANGED <<fit_pc, fit_family, fit_pipes>>
              ELSE /\ fit_fold' = 1
                   /\ fit_family' = Families[1]
                   /\ fit_pipes' = <<>>
                   /\ fit_pc' = "build"
    /\ UNCHANGED fit_pending
    /\ UNCHANGED NotFit

\* lines 238-247: the fold's pipeline around the model passed, and the
\* clones the search hands to its workers
FoldBuild ==
    /\ fit_pc = "build"
    /\ LET built == build_pipeline(objects, ModelOf(fit_family))
           pipe  == Len(built)
       IN  /\ objects' = Clones(built, pipe, InnerFits)
           /\ fit_pipes' = <<pipe>>
           /\ fit_pending' = {pipe + 3 * k : k \in 1..InnerFits}
    /\ fit_pc' = "search"
    /\ UNCHANGED <<fit_family, fit_fold>>
    /\ UNCHANGED NotFit

\* a worker of the search (n_jobs=-1) fits its clone
InnerFit ==
    /\ fit_pc = "search"
    /\ \E c \in fit_pending :
        /\ objects' = PipeFit(objects, c,
                              [stage |-> fit_family, part |-> fit_fold])
        /\ fit_pending' = fit_pending \ {c}
    /\ UNCHANGED <<fit_pc, fit_pipes, fit_family, fit_fold>>
    /\ UNCHANGED NotFit

\* the refit of the search: best_estimator_ is a clone of the fold's
\* pipeline fitted on Xtr; then lines 248-257 and the next fold, the next
\* family (line 381) or the end
Refit ==
    /\ fit_pc = "search"
    /\ fit_pending = {}
    /\ LET cloned == clone(objects, fit_pipes[1])
       IN  objects' = PipeFit(cloned, Len(cloned),
                              [stage |-> fit_family, part |-> fit_fold])
    /\ IF fit_fold < N_OUTER
       THEN /\ fit_fold' = fit_fold + 1
            /\ fit_pc' = "build"
            /\ UNCHANGED fit_family
       ELSE IF fit_family = Families[1]
       THEN /\ fit_fold' = 1
            /\ fit_family' = Families[2]
            /\ fit_pc' = "build"
       ELSE /\ fit_pc' = "done"
            /\ UNCHANGED <<fit_family, fit_fold>>
    /\ fit_pipes' = <<>>
    /\ UNCHANGED fit_pending
    /\ UNCHANGED NotFit

NextFit ==
    \/ MakeModels
    \/ BuildPipelines
    \/ EvalSplit
    \/ FoldBuild
    \/ InnerFit
    \/ Refit

SpecFit == InitFit /\ [][NextFit]_vars

(***************************************************************************)
(* The batch client (api/batch_predict.py): main() and predict_batch.      *)
(***************************************************************************)
\* most rows of an input file
MaxBatchRows == 10

\* feature_count of predict_batch
FEATURE_COUNT == 32

\* line 268: the fewest columns main() accepts
MIN_COLUMNS == 32

\* line 137: a progress line after every so many rows
PROGRESS_EVERY == 10

\* the command lines and input files: whether --patient-id-col is given,
\* whether the file exists, its number of columns, whether one of them is
\* the column --patient-id-col names, and its number of rows
BatchInputs ==
    {[patient_id_col |-> given, input_exists |-> exists, columns |-> ncols,
      id_in_file |-> infile, rows |-> nrows] :
        given \in BOOLEAN, exists \in BOOLEAN,
        ncols \in {FEATURE_COUNT - 1, FEATURE_COUNT, FEATURE_COUNT + 1},
        infile \in BOOLEAN, nrows \in {0, 1, MaxBatchRows}}

\* lines 78-81: len(feature_cols)
FeatureCols(args) ==
    LET others == IF args.patient_id_col /\ args.id_in_file
                  THEN args.columns - 1 ELSE args.columns
    IN  IF others < FEATURE_COUNT THEN others ELSE FEATURE_COUNT

\* what can happen to a row that is sent: the API answers 200, it answers
\* another status, or requests.post or response.json() raises
RowOutcomes == {"success", "api_error", "exception"}

\* a record of results
Record(idx, kind) == [row_index |-> idx, kind |-> kind]

InitBatch ==
    /\ AuditIdle /\ AucIdle /\ GsIdle /\ CvIdle /\ SplitIdle /\ RoleIdle
    /\ ApiIdle /\ RiskIdle /\ FitIdle
    /\ batch_pc = "start"
    /\ batch_args \in {a \in BatchInputs : a.id_in_file => a.patient_id_col}
    /\ batch_loaded = FALSE
    /\ batch_idx = 0
    /\ results = <<>>
    /\ success_count = 0
    /\ error_count = 0
    /\ batch_posts = 0
    /\ batch_exit = Running

\* sys.exit(1)
BatchExit(code) ==
    /\ batch_exit' = code
    /\ batch_pc' = "exited"

\* lines 252-254
CheckInput ==
    /\ batch_pc = "start"
    /\ IF ~batch_args.input_exists
       THEN BatchExit(EXIT_FAILURE)
       ELSE /\ batch_pc' = "input_found"
            /\ UNCHANGED batch_exit
    /\ UNCHANGED <<batch_args, batch_loaded, batch_idx, results,
                   success_count, error_count, batch_posts>>
    /\ UNCHANGED NotBatch

\* lines 257-258: GET /health answers 200 or not
CheckApiHealth ==
    /\ batch_pc = "input_found"
    /\ \E healthy \in BOOLEAN :
        IF ~healthy
        THEN BatchExit(EXIT_FAILURE)
        ELSE /\ batch_pc' = "healthy"
             /\ UNCHANGED batch_exit
    /\ UNCHANGED <<batch_args, batch_loaded, batch_idx, results,
                   success_count, error_count, batch_posts>>
    /\ UNCHANGED NotBatch

\* lines 261-270: the feature names fetched and dropped, the file read, the
\* number of columns checked
LoadAndValidate ==
    /\ batch_pc = "healthy"
    /\ \E readable \in BOOLEAN :
        IF ~readable
        THEN /\ BatchExit(EXIT_FAILURE)
             /\ UNCHANGED batch_loaded
        ELSE /\ batch_loaded' = TRUE
             /\ IF batch_args.columns < MIN_COLUMNS
                THEN BatchExit(EXIT_FAILURE)
                ELSE /\ batch_pc' = "rows"
                     /\ UNCHANGED batch_exit
    /\ UNCHANGED <<batch_args, batch_idx, results, success_count,
                   error_count, batch_posts>>
    /\ UNCHANGED NotBatch

\* lines 91-164: one pass of the loop of predict_batch.  late tells whether
\* the progress lines 138-140 raise (the clock has not advanced, or stdout
\* is gone): the handler of line 154 then runs after the success record
PredictRow ==
    /\ batch_pc = "rows"
    /\ batch_idx < batch_args.rows
    /\ IF FeatureCols(batch_args) # FEATURE_COUNT
       THEN /\ results' = Append(results, Record(batch_idx, "invalid_count"))
            /\ error_count' = error_count + 1
            /\ UNCHANGED <<success_count, batch_posts>>
       ELSE \E outcome \in RowOutcomes, late \in BOOLEAN :
            /\ late => outcome = "success" /\ (batch_idx + 1) % PROGRESS_EVERY = 0
            /\ batch_posts' = batch_posts + 1
            /\ success_count' =
                  IF outcome = "success" THEN success_count + 1
                  ELSE success_count
            /\ error_count' =
                  IF outcome # "success" \/ late THEN error_count + 1
                  ELSE error_count
            /\ results' =
                  results \o <<Record(batch_idx, outcome)>>
                  \o (IF late THEN <<Record(batch_idx, "exception")>>
                      ELSE <<>>)
    /\ batch_idx' = batch_idx + 1
    /\ UNCHANGED <<batch_pc, batch_args, batch_loaded, batch_exit>>
    /\ UNCHANGED NotBatch

\* lines 166-173 and 276-280: results returned and saved; save_results
\* exits with 1 when the output cannot be written
SaveResults ==
    /\ batch_pc = "rows"
    /\ batch_idx = batch_args.rows
    /\ \E saved \in BOOLEAN :
        BatchExit(IF saved THEN EXIT_SUCCESS ELSE EXIT_FAILURE)
    /\ UNCHANGED <<batch_args, batch_loaded, batch_idx, results,
                   success_count, error_count, batch_posts>>
    /\ UNCHANGED NotBatch

NextBatch ==
    \/ CheckInput
    \/ CheckApiHealth
    \/ LoadAndValidate
    \/ PredictRow
    \/ SaveResults

SpecBatch == InitBatch /\ [][NextBatch]_vars

(***************************************************************************)
(* Properties                                                              *)
(***************************************************************************)
Diagnosis == <<"D","i","a","g","n","o","s","i","s">>

\* detect_target has returned or raised in this run
TargetDecided == pc \notin {"start", "loaded"} /\ df # <<>>

LastLine == stdout[Len(stdout)]

\* the columns of df whose non-missing values all lie in {0, 1}
ZeroOneColumns ==
    {id \in Range(df) :
        /\ Col(id).dtype = "num"
        /\ \A r \in Rows : Col(id).vals[r] \in {0, 1, NaN}}

HasPreferredName == \E id \in Range(df) : Name(id) \in Range(TARGET_PREFERRED)

\* some column's lower-cased name is a hint word
HasHintName ==
    \E id \in Range(df) : Lower(Name(id)) \in Range(TARGET_CANDIDATE_HINTS)

\* the columns whose lower-cased name contains a hint word
HintSubstringColumns ==
    {id \in Range(df) :
        \E h \in Range(TARGET_CANDIDATE_HINTS) : Contains(h, Lower(Name(id)))}

\* C1: a dataset with a column named exactly Diagnosis resolves to that
\* column, whatever the other columns are and wherever it stands.
C1_DiagnosisWins ==
    (TargetDecided /\ InSeq(Diagnosis, Columns(df)))
        => (target = Diagnosis /\ failed # "detect_target")

\* Diagnosis is not the first column and shares the dataset with another
\* 0/1 column and a hint-named column
C1_Witness ==
    /\ pc = "target"
    /\ target = Diagnosis
    /\ Name(df[1]) # Diagnosis
    /\ \E id \in ZeroOneColumns : Name(id) # Diagnosis
    /\ \E id \in HintSubstringColumns : Name(id) # Diagnosis

\* C2: without a preferred name and without a hint name, a column is
\* returned only if it is the one and only 0/1 column; with none or several
\* the call raises, the message lists exactly the 0/1 columns, and no
\* target is returned.
C2_BinaryFallbackUnique ==
    (TargetDecided /\ ~HasPreferredName /\ ~HasHintName)
        => /\ target # NoName => {Name(id) : id \in ZeroOneColumns} = {target}
           /\ Cardinality(ZeroOneColumns) # 1 =>
                /\ failed = "detect_target"
                /\ target = NoName
                /\ LastLine.names = Columns(SelectSeqBy(df, ZeroOneColumns))

\* two 0/1 columns, no name to go by: the run stopped and named both
C2_Witness ==
    /\ pc = "exited"
    /\ failed = "detect_target"
    /\ ~HasPreferredName /\ ~HasHintName
    /\ Cardinality(ZeroOneColumns) = 2
    /\ Len(LastLine.names) = 2

\* C3: without a preferred name, a column whose lower-cased name contains
\* a hint word is returned by the hint step, before the 0/1 fallback.
C3_HintSubstring ==
    (TargetDecided /\ ~HasPreferredName /\ HintSubstringColumns # {})
        => /\ resolved_by = "hint"
           /\ target \in {Name(id) : id \in HintSubstringColumns}

\* C4: when target resolution fails the run ends on an ERROR: line with a
\* non-zero status and has written none of the four reports.
C4_TargetFailureWritesNothing ==
    (pc = "exited" /\ failed = "detect_target")
        => /\ Head(LastLine.words) = "ERROR:"
           /\ exit_code \notin {Running, EXIT_SUCCESS}
           /\ \A r \in Reports : written[r] # ThisRun

\* the run failed on the target with no 0/1 column at all; the reports of
\* an earlier run are still the ones on disk
C4_Witness ==
    /\ pc = "exited"
    /\ failed = "detect_target"
    /\ ZeroOneColumns = {}
    /\ \A r \in Reports : written[r] = EarlierRun

StageOrder == <<"leakage", "holdout", "temporal", "nested_cv">>

ReportOrder == <<"leakage_audit_report", "with_without_cognitive_metrics",
                 "temporal_site_validation", "nested_cv_summary">>

\* C5: the reports are written in stage order, each when its stage ends:
\* this run's reports always form a prefix of that order, and if stage k
\* raises, exactly the reports before k are this run's and the status is
\* non-zero.
C5_PartialReportsPersist ==
    /\ \A j \in 1..4 : written[ReportOrder[j]] = ThisRun
            => \A i \in 1..j : written[ReportOrder[i]] = ThisRun
    /\ \A k \in 1..4 : (pc = "exited" /\ failed = StageOrder[k])
            => /\ \A i \in 1..(k - 1) : written[ReportOrder[i]] = ThisRun
               /\ \A i \in k..4 : written[ReportOrder[i]] # ThisRun
               /\ exit_code \notin {Running, EXIT_SUCCESS}

\* the third stage raised: two fresh reports, two left from an earlier run
C5_Witness ==
    /\ pc = "exited"
    /\ failed = "temporal"
    /\ written["leakage_audit_report"] = ThisRun
    /\ written["with_without_cognitive_metrics"] = ThisRun
    /\ written["temporal_site_validation"] = EarlierRun
    /\ written["nested_cv_summary"] = EarlierRun

\* the words that would name a stage in a diagnostic
StageWords(step) ==
    CASE step = "leakage"   -> {"leakage", "Leakage", "audit"}
      [] step = "holdout"   -> {"holdout", "Holdout", "with/without"}
      [] step = "temporal"  -> {"temporal", "Temporal", "site", "Site"}
      [] step = "nested_cv" -> {"nested", "Nested", "CV", "nested_cv"}
      [] OTHER              -> {}

\* C6: when a stage after target resolution raises, the diagnostic printed
\* by the handler names the stage that failed.
C6_DiagnosticNamesStage ==
    (pc = "exited" /\ failed \in Range(StageOrder))
        => /\ exit_code \notin {Running, EXIT_SUCCESS}
           /\ Range(LastLine.words) \cap StageWords(failed) # {}

\* the leakage stage of this run has completed and written its report
LeakageWritten == written["leakage_audit_report"] = ThisRun

\* the feature columns handed to the leakage scorer
Scanned == Range(DropTarget(df, target))

\* the score computation of column id raises on this dataset
ScoreRaises(id) == ColumnAuc(Col(id), y).raised

TopList == leakage_report.top_suspicious_by_auc_mi

\* a score that is present: neither NaN nor None
Has(v) == v.d # 0

SameScore(a, b) == (~Has(a) /\ ~Has(b)) \/ (Has(a) /\ Has(b) /\ Eq(a, b))

\* a ranks strictly above b: higher score first, a missing score last
ScoreAbove(a, b) == (Has(a) /\ ~Has(b)) \/ (Has(a) /\ Has(b) /\ Lt(b, a))

\* (auc, mi) of s ranks strictly above that of t in the stated order
RanksAbove(sAuc, sMi, tAuc, tMi) ==
    \/ ScoreAbove(sAuc, tAuc)
    \/ SameScore(sAuc, tAuc) /\ ScoreAbove(sMi, tMi)

\* C8: the top-suspicious list has at most 30 entries, is ordered by
\* discriminative score descending, then mutual information descending,
\* a missing score after every present one, and no triple left out of the
\* list ranks above an entry of the list.
C8_TopSuspiciousOrdered ==
    LeakageWritten =>
        /\ Len(TopList) <= TOP_N
        /\ \A i, j \in 1..Len(TopList) : i < j =>
                ~RanksAbove(TopList[j].single_feature_auc, TopList[j].mutual_info,
                            TopList[i].single_feature_auc, TopList[i].mutual_info)
        /\ \A k \in 1..Len(suspicious) :
                (\A i \in 1..Len(TopList) : TopList[i].feature # suspicious[k].feature)
                => \A i \in 1..Len(TopList) :
                        ~RanksAbove(suspicious[k].auc, suspicious[k].mi,
                                    TopList[i].single_feature_auc,
                                    TopList[i].mutual_info)

\* C9: every entry of the leakage report that has a discriminative score
\* also has a mutual-information score, for numeric and categorical
\* columns alike.
C9_ScoredColumnsHaveBothScores ==
    LeakageWritten =>
        \A i \in 1..Len(TopList) :
            Has(TopList[i].single_feature_auc) => Has(TopList[i].mutual_info)

\* the feature names whose folded score is defined and at least 0.98
ProxyFeatures ==
    {Name(id) : id \in
        {c \in Scanned :
            /\ ~ScoreRaises(c)
            /\ LET a == ColumnAuc(Col(c), y).score
                   f == IF a.n >= a.d - a.n THEN a.n ELSE a.d - a.n
               IN  100 * f >= 98 * a.d}}

\* C10: proxy_flags lists, once each, exactly the features whose folded
\* discriminative score is at least 0.98, whether or not they are among
\* the 30 entries of the top-suspicious list.
C10_ProxyFlagsExact ==
    LeakageWritten =>
        /\ Range(leakage_report.proxy_flags) = ProxyFeatures
        /\ Len(leakage_report.proxy_flags) = Cardinality(ProxyFeatures)

\* a flagged feature that did not make the top-suspicious list, next to
\* flagged ones that did
C10_Witness ==
    /\ LeakageWritten
    /\ Len(TopList) = TOP_N
    /\ \E f \in Range(leakage_report.proxy_flags) :
            \A i \in 1..Len(TopList) : TopList[i].feature # f
    /\ \E i \in 1..Len(TopList) :
            InSeq(TopList[i].feature, leakage_report.proxy_flags)

\* the scores single_feature_auc returned for the column and its complement
AucNames == [i \in 1..Len(auc_X) |-> Name(auc_X[i])]

AtLeastHalf(a) == a.d > 0 /\ 2 * a.n >= a.d

AtMostOne(a) == a.d > 0 /\ a.n <= a.d

C12_OuterFoldsPartition ==
    /\ Len(fold_details) > 0 =>
          /\ cv_fit.tr_idx \cap cv_fit.te_idx = {}
          /\ cv_fit.tr_idx \cup cv_fit.te_idx = CvRows
          /\ cv_fit.fitted_on = cv_fit.tr_idx
          /\ cv_fit.fitted_on \cap cv_fit.scored = {}
          /\ cv_fit.scored = cv_fit.te_idx
          /\ \A r \in CvRows : cv_tested[r] <= 1
    /\ Len(fold_details) = N_OUTER => \A r \in CvRows : cv_tested[r] = 1

\* all five folds ran and the summary was returned
C12_Witness ==
    /\ cv_pc = "returned"
    /\ Len(cv_summary.folds) = N_OUTER
    /\ cv_fit.te_idx # {}
    /\ cv_fit.fitted_on = CvRows \ cv_fit.te_idx

\* the first index, in grid order, of a candidate no other candidate beats
FirstBest(scores) ==
    CHOOSE i \in 1..Len(scores) :
        /\ \A j \in 1..Len(scores) : ~Lt(scores[i], scores[j])
        /\ \A j \in 1..(i - 1) : Lt(scores[j], scores[i])

C14_SizesAreFloors ==
    split_pc = "sized" =>
        /\ split_sizes.train = (70 * split_n) \div 100
        /\ split_sizes.val = (85 * split_n) \div 100 - (70 * split_n) \div 100
        /\ split_sizes.test = split_n - (85 * split_n) \div 100
        /\ split_sizes.train >= 0 /\ split_sizes.val >= 0 /\ split_sizes.test >= 0
        /\ split_sizes.train + split_sizes.val + split_sizes.test = split_n
        /\ split_n = 500 =>
              split_sizes = [train |-> 350, val |-> 75, test |-> 75]

\* the name contains one of the tokens, case ignored
HasToken(nm, tokens) ==
    \E t \in 1..Len(tokens) : Contains(tokens[t], Lower(nm))

\* C15: with no column name containing a temporal token, get_date_column
\* returns None and the temporal section is the not-applicable message: no
\* sort, no split size, no exception
C15_NoTemporalColumnSkipsSplit ==
    (role_pc = "assessed"
        /\ \A i \in 1..Len(role_df) : ~HasToken(Name(role_df[i]), DATE_TOKENS))
    => /\ get_date_column(role_df) = NoName
       /\ role_temporal.temporal.date_column = NoName
       /\ role_temporal.temporal.message = TemporalMessage
       /\ role_temporal.temporal.sizes = NoSizes
       /\ ~role_temporal.sorted
       /\ ~role_temporal.raised

\* a frame with a site column and no temporal column was assessed
C15_Witness ==
    /\ role_pc = "assessed"
    /\ \A i \in 1..Len(role_df) : ~HasToken(Name(role_df[i]), DATE_TOKENS)
    /\ role_temporal.site.site_column # NoName
    /\ role_temporal.temporal.message = TemporalMessage

\* seq with only its members of keep, in order
Subsequence(seq, keep) == SelectSeq(seq, LAMBDA x : x \in keep)

\* C16: both feature sets leave out the target and every identifier-token
\* column, whatever other tokens it matches; the non-cognitive set also
\* leaves out every cognitive-token column and is the all-features set
\* without them, in the same order
C16_FeatureSetsExcludeRoles ==
    role_pc \in {"split", "assessed"} =>
        LET all   == role_features.used_all
            nocog == role_features.used_nocog
        IN  /\ ~InSeq(role_target, all) /\ ~InSeq(role_target, nocog)
            /\ \A i \in 1..Len(role_df) :
                  LET nm == Name(role_df[i])
                  IN  /\ HasToken(nm, ID_TOKENS) =>
                            ~InSeq(nm, all) /\ ~InSeq(nm, nocog)
                      /\ HasToken(nm, COGNITIVE_TOKENS) => ~InSeq(nm, nocog)
            /\ Range(nocog) \subseteq Range(all)
            /\ nocog = Subsequence(all, Range(nocog))

\* an identifier column that is also a site or cognitive column is left
\* out, while a cognitive column is in the all-features set only
C16_Witness ==
    /\ role_pc = "split"
    /\ \E i \in 1..Len(role_df) :
          /\ HasToken(Name(role_df[i]), ID_TOKENS)
          /\ HasToken(Name(role_df[i]), SITE_TOKENS)
             \/ HasToken(Name(role_df[i]), COGNITIVE_TOKENS)
          /\ ~InSeq(Name(role_df[i]), role_features.used_all)
    /\ role_features.used_all # role_features.used_nocog

\* C17: with no dataset file at either path the run ends before anything is
\* computed: one line, starting with ERROR:, a non-zero status, no report
\* of this run; a run that completes ends on the completion summary with
\* status 0 and no ERROR: line
C17_MissingDatasetAborts ==
    /\ (pc # "start" /\ files = <<NoFile, NoFile>>) =>
          /\ pc = "exited" /\ failed = "load_dataset"
          /\ df = <<>> /\ target = NoName /\ resolved_by = "none"
          /\ X_all = <<>> /\ X_nocog = <<>> /\ y = <<>> /\ suspicious = <<>>
          /\ Len(stdout) = 1
          /\ Head(stdout[1].words) = "ERROR:"
          /\ exit_code \notin {Running, EXIT_SUCCESS}
          /\ \A r \in Reports : written[r] # ThisRun
    /\ pc = "complete" =>
          /\ failed = "none"
          /\ exit_code = EXIT_SUCCESS
          /\ SubSeq(stdout, Len(stdout) - Len(CompletionSummary) + 1,
                    Len(stdout)) = CompletionSummary
          /\ \A i \in 1..Len(stdout) : Head(stdout[i].words) # "ERROR:"

\* the run found no dataset and stopped on the file-not-found message
C17_Witness ==
    /\ files = <<NoFile, NoFile>>
    /\ pc = "exited"
    /\ failed = "load_dataset"
    /\ stdout = <<ErrorLine(Exc(FileNotFoundMessage))>>

\* the last response answers a POST /predict whose features list did not
\* have exactly 32 entries
WrongCountAnswered ==
    /\ api_response.endpoint = "/predict"
    /\ api_response.features # 32

\* C18: a POST /predict whose features list does not have exactly 32
\* entries is answered with status 400, and no prediction is computed
C18_WrongCountIs400 ==
    WrongCountAnswered =>
        /\ api_response.status_code = 400
        /\ api_response.prediction = NoResponse.prediction
        /\ api_response.probability = NoResponse.probability

\* C19: while the API serves, all three artifacts are loaded and /health
\* answers 200, healthy, model_loaded true; healthy goes with all three
\* being present; if an artifact cannot be loaded the startup fails and no
\* request is ever answered
C19_ServingMeansLoaded ==
    /\ api_pc = "serving" => model_artifacts = Range(ArtifactKeys)
    /\ (api_pc = "serving" /\ api_response.endpoint = "/health") =>
          /\ api_response.status_code = 200
          /\ api_response.status = "healthy"
          /\ api_response.model_loaded
          /\ api_response.status = "healthy"
                <=> Range(ArtifactKeys) \subseteq model_artifacts
    /\ (api_pc # "idle" /\ api_files # Range(ArtifactKeys)) =>
          /\ api_pc \in {"starting", "failed"}
          /\ api_response = NoResponse
          /\ api_predicted = 0

\* the server is up and has just answered a health check
C19_Witness ==
    /\ api_pc = "serving"
    /\ api_response.endpoint = "/health"
    /\ api_response.status = "healthy"
    /\ api_predicted > 0

LevelRank(level) ==
    CHOOSE i \in 1..4 : <<"Low", "Moderate", "High", "Critical">>[i] = level

\* C20: calculate_risk_level returns a level for every probability, Low
\* below 0.40, Moderate from 0.40 to below 0.65, High from 0.65 to below
\* 0.80, Critical above 0.80, and never a lower level for a higher
\* probability
C20_RiskLevelThresholds ==
    risk_pc = "levelled" =>
        /\ \A i \in 1..2 :
              /\ risk_levels[i] \in {"Low", "Moderate", "High", "Critical"}
              /\ risk_p[i] < 40000 => risk_levels[i] = "Low"
              /\ (40000 <= risk_p[i] /\ risk_p[i] < 65000) =>
                    risk_levels[i] = "Moderate"
              /\ (65000 <= risk_p[i] /\ risk_p[i] < 80000) =>
                    risk_levels[i] = "High"
              /\ risk_p[i] > 80000 => risk_levels[i] = "Critical"
        /\ risk_p[1] <= risk_p[2] =>
              LevelRank(risk_levels[1]) <= LevelRank(risk_levels[2])

\* the two probabilities sit on the lowest threshold and just above the
\* highest one
C20_Witness ==
    /\ risk_pc = "levelled"
    /\ risk_p = <<40000, 80001>>
    /\ risk_levels = <<"Moderate", "Critical">>

\* the candidates of get_date_column whose values parse as dates
Parseable(frame) ==
    SelectSeq(find_columns_by_tokens(frame, DATE_TOKENS),
              LAMBDA nm : ~ToDatetimeRaises(Col(ColId(frame, nm))))

\* the candidates of get_date_column with an integer dtype
IntegerTyped(frame) ==
    SelectSeq(find_columns_by_tokens(frame, DATE_TOKENS),
              LAMBDA nm : IsIntegerDtype(Col(ColId(frame, nm))))

\* C22: the temporal column reported is the first name-matched candidate
\* that parses as dates if any candidate parses, otherwise the first with an
\* integer dtype, otherwise the first candidate; a parseable candidate wins
\* over an integer-typed candidate before it that does not parse.
C22_DateColumnByPriority ==
    role_pc = "assessed" =>
        LET candidates == find_columns_by_tokens(role_df, DATE_TOKENS)
            chosen     == role_temporal.temporal.date_column
        IN  IF Parseable(role_df) # <<>> THEN chosen = Parseable(role_df)[1]
            ELSE IF IntegerTyped(role_df) # <<>>
            THEN chosen = IntegerTyped(role_df)[1]
            ELSE IF candidates # <<>> THEN chosen = candidates[1]
            ELSE chosen = NoName

\* the names of the frame with a site token, and the first of them in the
\* order of Python strings
SiteNames(frame) ==
    {Name(frame[i]) : i \in {j \in 1..Len(frame) :
                                HasToken(Name(frame[j]), SITE_TOKENS)}}

FirstSiteName(frame) ==
    CHOOSE nm \in SiteNames(frame) :
        \A other \in SiteNames(frame) \ {nm} : StrLess(nm, other)

\* the distinct non-missing values of the column, and whether a row has none
Present(c) == {c.vals[r] : r \in {q \in Rows : ~IsMissing(c, q)}}

AnyMissing(c) == \E r \in Rows : IsMissing(c, r)

\* C29: with a site column, the first name with a site token is reported
\* and n_groups is its number of distinct values plus one when a row has no
\* value; the Site column with values A, B, C, A gives 3; with no site
\* column the not-applicable message is reported.
C29_SiteGroupsCountMissingOnce ==
    role_pc = "assessed" =>
        LET site == role_temporal.site
        IN  IF SiteNames(role_df) = {}
            THEN /\ site.message = SiteMessage
                 /\ site.site_column = NoName
            ELSE LET c == Col(ColId(role_df, FirstSiteName(role_df)))
                 IN  /\ site.site_column = FirstSiteName(role_df)
                     /\ site.message = <<>>
                     /\ site.n_groups = Cardinality(Present(c))
                                        + (IF AnyMissing(c) THEN 1 ELSE 0)
                     /\ (7 \in Range(role_df) /\ site.site_column = Name(7))
                            => site.n_groups = 3

\* a frame whose site column has two values and rows without a value was
\* assessed: three groups
C29_Witness ==
    /\ role_pc = "assessed"
    /\ role_temporal.site.site_column = <<"C","l","i","n","i","c">>
    /\ AnyMissing(Col(ColId(role_df, role_temporal.site.site_column)))
    /\ role_temporal.site.n_groups = 3

\* the fold records and the scores appended so far are kept as they are, and
\* at most one of each is appended at a time, together
RecordsOnlyAppended ==
    /\ Len(fold_details') \in {Len(fold_details), Len(fold_details) + 1}
    /\ Len(outer_scores') = Len(fold_details')
    /\ \A i \in 1..Len(fold_details) :
          /\ fold_details'[i] = fold_details[i]
          /\ outer_scores'[i] = outer_scores[i]
    /\ cv_summary # <<>> => cv_summary' = cv_summary

\* C23: the summary returned holds 5 fold records numbered 1 to 5 in order,
\* each with its selected parameters, inner validation score and outer test
\* score; outer_scores has the same length and order and repeats the test
\* scores; a record is appended once and never changed; when a fold raises
\* no summary is returned.
C23_FiveOrderedFoldRecords ==
    /\ [](cv_pc = "returned" =>
            /\ Len(cv_summary.folds) = 5
            /\ Len(cv_summary.outer_scores) = 5
            /\ cv_summary.folds = fold_details
            /\ \A i \in 1..5 :
                  /\ DOMAIN cv_summary.folds[i]
                        = {"fold", "best_params", "val_score", "test_auc"}
                  /\ cv_summary.folds[i].fold = i
                  /\ InSeq(cv_summary.folds[i].best_params, cv_candidates)
                  /\ cv_summary.folds[i].val_score.d > 0
                  /\ cv_summary.folds[i].test_auc.d > 0
                  /\ cv_summary.outer_scores[i] = cv_summary.folds[i].test_auc)
    /\ [](cv_pc = "raised" => cv_summary = <<>>)
    /\ [][RecordsOnlyAppended /\ (cv_pc = "raised" => cv_pc' = "raised")]_vars

\* five folds ran on a frame with 5 rows of each class and the summary was
\* returned with two different test scores
C23_Witness ==
    /\ cv_pc = "returned"
    /\ Len(cv_summary.folds) = 5
    /\ \E i, j \in 1..5 : cv_summary.outer_scores[i] # cv_summary.outer_scores[j]
    /\ Cardinality({r \in CvRows : cv_y[r] = 0}) = 5

\* the evaluations that have called fit so far
Evaluations == UNION {objects[i].fitted_in : i \in 1..Len(objects)}

\* C21: no estimator object is fitted in two evaluations (two outer folds,
\* the two holdout evaluations, or one of each), and every evaluation that
\* has fitted anything has fitted a pipeline and a classifier of its own.
C21_NoFittedObjectShared ==
    /\ \A i \in 1..Len(objects) : Cardinality(objects[i].fitted_in) <= 1
    /\ \A e \in Evaluations :
          \E p \in 1..Len(objects) :
              /\ objects[p].class = "Pipeline"
              /\ objects[p].fitted_in = {e}
              /\ \A k \in 1..Len(objects[p].steps) :
                    objects[objects[p].steps[k]].fitted_in = {e}

\* C24: every feature named in top_suspicious_by_auc_mi or in proxy_flags is
\* a column of the all-features set, so none of them is an identifier column.
C24_ScoredFeaturesAreAllFeatures ==
    LeakageWritten =>
        /\ \A i \in 1..Len(TopList) :
              /\ InSeq(TopList[i].feature, Columns(X_all))
              /\ ~HasToken(TopList[i].feature, ID_TOKENS)
        /\ \A i \in 1..Len(leakage_report.proxy_flags) :
              /\ InSeq(leakage_report.proxy_flags[i], Columns(X_all))
              /\ ~HasToken(leakage_report.proxy_flags[i], ID_TOKENS)

\* the point of main() right after the report of each stage is written
WrittenAt == <<"leakage_done", "holdout_done", "temporal_done", "complete">>

\* a step changes a report file only by writing this run's full version of
\* it, at the completion of the stage the report belongs to
OnlyOverwrittenAtCompletion ==
    \A k \in 1..4 :
        written'[ReportOrder[k]] # written[ReportOrder[k]]
        => /\ written'[ReportOrder[k]] = ThisRun
           /\ pc' = WrittenAt[k]
           /\ \A j \in 1..4 : j # k =>
                 written'[ReportOrder[j]] = written[ReportOrder[j]]

\* C28: a report file changes only by being overwritten in full when its
\* stage completes; after a failure at stage k the files of stage k and
\* later are still what they were before the run, so the files on disk can
\* come from different runs.
C28_ReportsOnlyOverwritten ==
    /\ [][OnlyOverwrittenAtCompletion]_vars
    /\ [](\A k \in 1..4 : (pc = "exited" /\ failed = StageOrder[k]) =>
            \A i \in k..4 : written[ReportOrder[i]] \in {Absent, EarlierRun})

\* the second stage raised: the leakage report is this run's, the other
\* three files are those an earlier run wrote
C28_Witness ==
    /\ pc = "exited"
    /\ failed = "holdout"
    /\ written["leakage_audit_report"] = ThisRun
    /\ \A i \in 2..4 : written[ReportOrder[i]] = EarlierRun

\* the levels the documented thresholds allow for a probability: below 0.40
\* Low, 0.40 to 0.65 Moderate, 0.65 to 0.80 High, above 0.80 Critical; 0.80
\* itself is documented for neither of its neighbours
DocumentedLevels(probability) ==
    IF probability < 40000 THEN {"Low"}
    ELSE IF probability < 65000 THEN {"Moderate"}
    ELSE IF probability < 80000 THEN {"High"}
    ELSE IF probability = 80000 THEN {"High", "Critical"}
    ELSE {"Critical"}

\* C25: in a 200 response of POST /predict, prediction is 1 exactly when the
\* probability returned (rounded to 4 decimals) is at least 0.5, and
\* risk_level is the level of the probability returned.
C25_ResponseAgreesWithReturnedProbability ==
    (api_response.endpoint = "/predict" /\ api_response.status_code = 200)
    => /\ api_response.prediction = 1 <=> api_response.probability >= 50000
       /\ api_response.risk_level \in DocumentedLevels(api_response.probability)

\* C26: predict_batch holds one record per row processed, in row order, and
\* success_count + error_count is the number of rows processed, whatever
\* happened to each row; every row is processed before the results are saved.
C26_OneRecordPerRow ==
    /\ Len(results) = batch_idx
    /\ \A i \in 1..Len(results) : results[i].row_index = i - 1
    /\ success_count + error_count = batch_idx
    /\ (batch_pc = "exited" /\ results # <<>>) => batch_idx = batch_args.rows

\* the feature columns of the input file: its columns without the one
\* --patient-id-col names
FeatureColumnsOfFile ==
    IF batch_args.patient_id_col /\ batch_args.id_in_file
    THEN batch_args.columns - 1 ELSE batch_args.columns

\* C27: with fewer than 32 feature columns in the input file the client
\* ends with status 1 and sends no /predict request; with the input missing
\* or the API unhealthy it ends before the file is loaded.
C27_TooFewFeatureColumnsExits ==
    /\ (batch_loaded /\ FeatureColumnsOfFile < 32) =>
            /\ batch_posts = 0
            /\ batch_pc = "exited"
            /\ batch_exit = 1
    /\ (batch_pc = "exited" /\ ~batch_args.input_exists) =>
            ~batch_loaded /\ batch_exit = 1

=============================================================================
